---- MODULE Spec2Model ----
(***************************************************************************)
(* A model of the frz repository engine (kwiberg/frz): the content ID and  *)
(* its base-32 codec, the content store, the on-disk hash index, the       *)
(* directory content source, and the add / fill / repair commands of       *)
(* TopDirectory and command.cc.                                            *)
(*                                                                         *)
(* Text is modelled as a sequence of one-character strings, a filesystem   *)
(* path as a sequence of such texts (its elements).  The digest width is   *)
(* scaled from 256 bits to HashBits bits; everything else of the codec is  *)
(* computed digit by digit as hash.hh does.                                *)
(***************************************************************************)
EXTENDS Integers, Sequences, FiniteSets, TLC

\* std::optional: Nothing, or Just(v).
Nothing == << >>
Just(v) == << v >>
HasValue(o) == Len(o) = 1
Value(o) == o[1]

\* The std::nullopt of an optional<int>.
NoVal == -1

\* F applied to the value of v, with v evaluated once.
Let(v, F(_)) == CHOOSE r \in {F(x) : x \in {v}} : TRUE

(***************************************************************************)
(* base32.hh                                                               *)
(***************************************************************************)
kBase32Digits ==
    << "0", "1", "2", "3", "4", "5", "6", "7", "8", "9", "a", "b", "c", "d",
       "e", "f", "g", "h", "j", "k", "m", "n", "p", "q", "r", "s", "t", "u",
       "w", "x", "y", "z" >>

\* The upper-case spellings Base32ToVal accepts, at the same positions.
kBase32UpperDigits ==
    << "0", "1", "2", "3", "4", "5", "6", "7", "8", "9", "A", "B", "C", "D",
       "E", "F", "G", "H", "J", "K", "M", "N", "P", "Q", "R", "S", "T", "U",
       "W", "X", "Y", "Z" >>

kSymlinkSubdirs == 2
kSymlinkSubdirDigits == 2

\* The value 0..31 of a base-32 digit, or NoVal.
Base32Values ==
    [c \in {kBase32Digits[i] : i \in 1..32} |->
       (CHOOSE i \in 1..32 : kBase32Digits[i] = c) - 1]
    @@ [c \in {kBase32UpperDigits[i] : i \in 1..32} |->
          (CHOOSE i \in 1..32 : kBase32UpperDigits[i] = c) - 1]
\* Base32ToVal that reads any other character as the digit 0.
Base32ToValLenient(c) ==
    IF c \in DOMAIN Base32Values THEN Base32Values[c] ELSE 0
Base32ToVal(c) ==
    IF c \in DOMAIN Base32Values THEN Base32Values[c] ELSE NoVal

IsBase32Number(str) == \A i \in 1..Len(str) : Base32ToVal(str[i]) # NoVal

\* substr(pos, n) of std::string_view, 0-based, clamped at the end.
Substr(s, pos, n) ==
    SubSeq(s, pos + 1, IF pos + n > Len(s) THEN Len(s) ELSE pos + n)

SymlinkPath(base32) ==
    << Substr(base32, 0, 2), Substr(base32, 2, 2),
       Substr(base32, 4, Len(base32)) >>

(***************************************************************************)
(* Bit helpers: a bit string is a sequence of 0/1, most significant first. *)
(***************************************************************************)
RECURSIVE Pow2(_)
Pow2(n) == IF n = 0 THEN 1 ELSE 2 * Pow2(n - 1)

Bits(n, w) == [i \in 1..w |-> (n \div Pow2(w - i)) % 2]

RECURSIVE BitsToNat(_)
BitsToNat(b) ==
    IF b = << >> THEN 0
    ELSE 2 * BitsToNat(SubSeq(b, 1, Len(b) - 1)) + b[Len(b)]

RECURSIVE StripZeros(_)
StripZeros(b) ==
    IF b = << >> \/ b[1] = 1 THEN b ELSE StripZeros(Tail(b))

\* 64 - std::countl_zero(n)
RECURSIVE BitWidth(_)
BitWidth(n) == IF n = 0 THEN 0 ELSE 1 + BitWidth(n \div 2)

RoundUp(n, m) == ((n + m - 1) \div m) * m
RoundDown(n, m) == (n \div m) * m

RECURSIVE BitsOfBytes(_)
BitsOfBytes(bytes) ==
    IF bytes = << >> THEN << >>
    ELSE Bits(Head(bytes), 8) \o BitsOfBytes(Tail(bytes))

\* The base-32 digits of a bit string whose length is a multiple of 5.
RECURSIVE DigitsOfBits(_)
DigitsOfBits(b) ==
    IF Len(b) < 5 THEN << >>
    ELSE << kBase32Digits[BitsToNat(SubSeq(b, 1, 5)) + 1] >>
             \o DigitsOfBits(SubSeq(b, 6, Len(b)))

(***************************************************************************)
(* hash.hh: HashAndSize.  A value is [hash |-> bytes, size |-> n].         *)
(***************************************************************************)
HashBits == 24
kNumBytes == HashBits \div 8

\* The bits of n without leading zeros: a std::uint64_t at full width.
NatBits(n) == Bits(n, BitWidth(n))
Zeros(w) == [i \in 1..w |-> 0]

\* ToBase32 with a digest that is always as wide as a size can be.
ToBase32BitsFixedWidth(hash, size) ==
    LET n == BitsOfBytes(hash) \o Zeros(64 - Len(size)) \o size
    IN  DigitsOfBits(Zeros(RoundUp(Len(n), 5) - Len(n)) \o n)

\* ToBase32 of the digest `hash` (bytes) and the size `size`, the size
\* given by its bits without leading zeros (Len(size) is
\* 64 - std::countl_zero(size)).
ToBase32Bits(hash, size) ==
    LET hash_bits == 8 * Len(hash)
        size_bits == RoundUp(Len(size) + hash_bits, 5) - hash_bits
        whole     == RoundDown(Len(hash), 5)
        \* whole groups of 5 bytes give 8 digits each
        groups    == DigitsOfBits(BitsOfBytes(SubSeq(hash, 1, whole)))
        \* the remaining 0-4 bytes, then the size in size_bits bits
        n         == BitsOfBytes(SubSeq(hash, whole + 1, Len(hash)))
                         \o Zeros(size_bits - Len(size)) \o size
    IN  groups \o DigitsOfBits(n)

ToBase32(hs) == ToBase32Bits(hs.hash, NatBits(hs.size))

\* One call of the get_byte lambda: st = [value, bits, idx, error, bytes].
RECURSIVE GetByte(_, _)
GetByte(base32, st) ==
    IF st.error THEN [st EXCEPT !.bytes = Append(@, 0)]
    ELSE IF st.bits < 8
    THEN IF st.idx >= Len(base32)
         THEN [st EXCEPT !.error = TRUE, !.bytes = Append(@, 0)]
         ELSE LET d == Base32ToVal(base32[st.idx + 1])
              IN  IF d = NoVal
                  THEN [st EXCEPT !.error = TRUE, !.bytes = Append(@, 0)]
                  ELSE GetByte(base32,
                               [st EXCEPT !.value = @ * 32 + d,
                                          !.bits = @ + 5, !.idx = @ + 1])
    ELSE LET nb == st.bits - 8
         IN  [st EXCEPT !.bits = nb,
                        !.bytes = Append(@, st.value \div Pow2(nb)),
                        !.value = @ % Pow2(nb)]

RECURSIVE GetHashBytes(_, _, _)
GetHashBytes(base32, st, n) ==
    IF n = 0 THEN st ELSE GetHashBytes(base32, GetByte(base32, st), n - 1)

\* "Read the rest of the bits" without the test of std::countl_zero(value).
RECURSIVE ReadRestUnchecked(_, _)
ReadRestUnchecked(base32, st) ==
    IF st.error \/ st.idx >= Len(base32) THEN st
    ELSE LET d == Base32ToVal(base32[st.idx + 1])
             st2 == IF d = NoVal THEN [st EXCEPT !.error = TRUE]
                    ELSE [st EXCEPT
                             !.value = StripZeros(@ \o Bits(d, 5))]
         IN  ReadRestUnchecked(base32,
                               [st2 EXCEPT !.idx = @ + 1, !.bits = @ + 5])

\* "Read the rest of the bits": value is kept as a stripped bit string, so
\* that std::countl_zero(value) is 64 - Len(value).
RECURSIVE ReadRest(_, _)
ReadRest(base32, st) ==
    IF st.error \/ st.idx >= Len(base32) THEN st
    ELSE LET d == Base32ToVal(base32[st.idx + 1])
             st2 == IF d = NoVal THEN [st EXCEPT !.error = TRUE]
                    ELSE IF 64 - Len(st.value) < 6
                    THEN [st EXCEPT !.error = TRUE]
                    ELSE [st EXCEPT
                             !.value = StripZeros(@ \o Bits(d, 5))]
         IN  ReadRest(base32, [st2 EXCEPT !.idx = @ + 1, !.bits = @ + 5])

FromBase32State(num_bytes, base32) ==
    LET s0 == [value |-> 0, bits |-> 0, idx |-> 0, error |-> FALSE,
               bytes |-> << >>]
        s1 == GetHashBytes(base32, s0, num_bytes)
    IN  ReadRest(base32, [s1 EXCEPT !.value = StripZeros(Bits(@, 8))])

\* FromBase32 that does not mind how many digits spell the size.
FromBase32BitsNoPaddingCheck(num_bytes, base32) ==
    LET st == FromBase32State(num_bytes, base32)
    IN  IF st.error THEN Nothing
        ELSE Just([hash |-> st.bytes, size |-> st.value])

\* FromBase32 for a digest of num_bytes bytes; the size is returned by its
\* bits without leading zeros.
FromBase32Bits(num_bytes, base32) ==
    LET st == FromBase32State(num_bytes, base32)
        actual_bits_in_value == Len(st.value)
    IN  IF st.error \/ st.bits - actual_bits_in_value >= 5 THEN Nothing
        ELSE Just([hash |-> st.bytes, size |-> st.value])

FromBase32(base32) ==
    LET r == FromBase32Bits(kNumBytes, base32)
    IN  IF r = Nothing THEN Nothing
        ELSE Just([hash |-> r[1].hash, size |-> BitsToNat(r[1].size)])

\* Parse a base-32 number out of a symlink target path (a sequence of
\* elements); Nothing if the path is not of the form .frz/<hash>/DD/DD/REST.
RECURSIVE PathBase32From(_, _, _, _)
PathBase32From(hash_name, link_target, seen_elements, base32) ==
    IF seen_elements >= Len(link_target) THEN Just(base32)
    ELSE LET element == link_target[seen_elements + 1]
         IN  IF seen_elements = 0
             THEN IF element # << ".", "f", "r", "z" >> THEN Nothing
                  ELSE PathBase32From(hash_name, link_target, 1, base32)
             ELSE IF seen_elements = 1
             THEN IF element # hash_name THEN Nothing
                  ELSE PathBase32From(hash_name, link_target, 2, base32)
             ELSE IF seen_elements - 2 < kSymlinkSubdirs
             THEN IF Len(element) = kSymlinkSubdirDigits
                         /\ IsBase32Number(element)
                  THEN PathBase32From(hash_name, link_target,
                                      seen_elements + 1, base32 \o element)
                  ELSE Nothing
             ELSE IF seen_elements - 2 = kSymlinkSubdirs
             THEN IF IsBase32Number(element)
                  THEN PathBase32From(hash_name, link_target,
                                      seen_elements + 1, base32 \o element)
                  ELSE Nothing
             ELSE Nothing

PathBase32(hash_name, link_target) ==
    PathBase32From(hash_name, link_target, 0, << >>)

(***************************************************************************)
(* Bounds of the model                                                     *)
(***************************************************************************)
\* Steps of the environment (checkouts, damage) in one behaviour.
MaxEnv == 1
\* How many of the unused blob names a new blob's random name is drawn from.
NameFanout == 1

(***************************************************************************)
(* The filesystem the engine works on                                      *)
(***************************************************************************)
FrzName == << ".", "f", "r", "z" >>
DotDot == << ".", "." >>
hash_name == << "b", "l", "a", "k", "e", "3" >>

\* The working tree: root/{a, sub/{b, dir/{c}}, nested/{n}}; root and nested
\* hold a real .frz directory, so nested is a repository of its own.  Beside
\* it, /outside/{x} has no .frz directory in or above it.
Dirs == {"root", "sub", "subdir", "nested", "outside"}
SubDirs == {"sub", "subdir"}
Slots == {"a", "b", "c", "n"}
OutsideSlots == {"x"}
Paths == Slots \cup OutsideSlots
Parent(d) == CASE d = "sub" -> "root"
               [] d = "subdir" -> "sub"
               [] d = "nested" -> "root"
               [] d = "outside" -> "/"
               [] d = "/" -> "/"
               [] OTHER -> "root"
SlotDir(s) == CASE s = "a" -> "root"
                [] s = "b" -> "sub"
                [] s = "c" -> "subdir"
                [] s = "x" -> "outside"
                [] OTHER -> "nested"
\* The entries of a directory other than .frz, in one listing order.
DirEntries(d) ==
    CASE d = "root" -> << [slot |-> "a"], [dir |-> "sub"], [dir |-> "nested"] >>
      [] d = "sub" -> << [slot |-> "b"], [dir |-> "subdir"] >>
      [] d = "subdir" -> << [slot |-> "c"] >>
      [] d = "outside" -> << [slot |-> "x"] >>
      [] OTHER -> << [slot |-> "n"] >>
IsSlotEntry(e) == DOMAIN e = {"slot"}

Reverse(q) == [i \in 1..Len(q) |-> q[Len(q) + 1 - i]]
\* A directory iteration order: the listing, or its reverse.
Listing(q, rev) == IF rev THEN Reverse(q) ELSE q

NoEntry == [kind |-> "none", bytes |-> << >>, target |-> << >>]
RegularFile(b) == [kind |-> "file", bytes |-> b, target |-> << >>]
Symlink(t) == [kind |-> "symlink", bytes |-> << >>, target |-> t]

\* Names a content store can give a blob, and the external directories.
BlobNames == << "g0", "g1", "g2", "g3", "g4", "g5" >>
Locators == {"L1", "L2"}

Put(f, k, v) == [x \in DOMAIN f \cup {k} |-> IF x = k THEN v ELSE f[x]]
Drop(f, k) == [x \in DOMAIN f \ {k} |-> f[x]]
EmptyFcn == [x \in {} |-> 0]

\* The digest of a byte string.  The hash family is a collaborator; it is
\* modelled as an injective map into kNumBytes bytes.
RECURSIVE ByteCode(_)
ByteCode(bytes) ==
    IF bytes = << >> THEN 1
    ELSE 3 * ByteCode(SubSeq(bytes, 1, Len(bytes) - 1)) + bytes[Len(bytes)]
HasherFinish(bytes) ==
    LET c == ByteCode(bytes)
    IN  << (c * 37) % 256, (c * 101) % 256, c % 256 >>

\* SizeHasher::Finish after streaming a file with these bytes through it.
SizeHasherFinish(bytes) == [hash |-> HasherFinish(bytes), size |-> Len(bytes)]

\* The file contents that occur: byte strings over {1, 2}.
B1 == << 1 >>
B2 == << 2 >>
MaxFileLen == 3
Contents == UNION {[1..n -> {1, 2}] : n \in 0..MaxFileLen}

ToUpper(text) ==
    [i \in 1..Len(text) |-> kBase32UpperDigits[Base32ToVal(text[i]) + 1]]

\* ToBase32 and FromBase32, tabulated once for the IDs of these contents
\* and their texts in either letter case, and computed for anything else.
ToBase32Table ==
    EmptyFcn @@ [hs \in {SizeHasherFinish(b) : b \in Contents} |->
                   ToBase32(hs)]
FromBase32Table ==
    EmptyFcn @@ [base32 \in {ToBase32Table[hs] : hs \in DOMAIN ToBase32Table}
                            \cup {ToUpper(ToBase32Table[hs]) :
                                     hs \in DOMAIN ToBase32Table} |->
                   FromBase32(base32)]
HsToBase32(hs) ==
    IF hs \in DOMAIN ToBase32Table THEN ToBase32Table[hs] ELSE ToBase32(hs)
HsFromBase32(base32) ==
    IF base32 \in DOMAIN FromBase32Table THEN FromBase32Table[base32]
    ELSE FromBase32(base32)

(***************************************************************************)
(* filesystem_util.cc, content_store.cc                                    *)
(***************************************************************************)
IsReadonly(blob) == ~blob.writable
\* A variant that leaves the permissions as they are.
KeepWritePermissions(blob) == blob
RemoveWritePermissions(blob) == [blob EXCEPT !.writable = FALSE]

FreeNames(store) == SelectSeq(BlobNames, LAMBDA n : n \notin DOMAIN store)
\* The destination a store settles on: collisions are retried, so it is a
\* name not in use; pick says which.
SuggestDestinationFilename(store, pick) ==
    LET free == FreeNames(store)
    IN  free[IF pick <= Len(free) THEN pick ELSE Len(free)]

\* CopyInsert: copy the bytes to a new destination, clear its write bits.
\* Returns [store, path].
CopyInsert(store, blob, pick) ==
    LET destination == SuggestDestinationFilename(store, pick)
    IN  [store |-> Put(store, destination, RemoveWritePermissions(blob)),
         path  |-> destination]

\* MoveInsert: hard-link to a new destination, unlink the source (done by
\* the caller, who owns the source directory), clear the write bits; across
\* filesystems (cross_device) the file is copied and the source stays.
\* Returns [store, path, moved].
MoveInsert(store, blob, cross_device, pick) ==
    IF cross_device
    THEN [moved |-> FALSE] @@ CopyInsert(store, blob, pick)
    ELSE LET destination == SuggestDestinationFilename(store, pick)
         IN  [store |-> Put(store, destination, RemoveWritePermissions(blob)),
              path  |-> destination, moved |-> TRUE]

\* CanonicalPath: the path relative to content/, if it lies below content/.
CanonicalPath(target) ==
    IF target.dir = "content" THEN Just(target.name) ELSE Nothing

(***************************************************************************)
(* hash_index.cc: DiskHashIndex.  The index maps the path DD/DD/REST of a  *)
(* symlink below .frz/<hash-name>/ to the symlink's target.                *)
(***************************************************************************)
IndexContains(index, hs) == SymlinkPath(HsToBase32(hs)) \in DOMAIN index

\* A variant of Insert that reports a new entry without creating it.
IndexInsertNotCreated(index, hs, path) ==
    [index |-> index, inserted |-> ~IndexContains(index, hs)]

\* A variant of Insert that binds the ID to the new path in any case.
IndexInsertOverwriting(index, hs, path) ==
    [index |-> Put(index, SymlinkPath(HsToBase32(hs)), path),
     inserted |-> ~IndexContains(index, hs)]

\* Returns [index, inserted].
IndexInsert(index, hs, path) ==
    LET symlink == SymlinkPath(HsToBase32(hs))
    IN  IF symlink \in DOMAIN index
        THEN [index |-> index, inserted |-> FALSE]
        ELSE [index |-> Put(index, symlink, path), inserted |-> TRUE]

\* hash_index.cc: RamHashIndex.  index_ maps an ID to a path.
RamContains(index_, hs) == hs \in DOMAIN index_

\* Returns [index, inserted], as try_emplace does.
RamInsert(index_, hs, path) ==
    IF hs \in DOMAIN index_
    THEN [index |-> index_, inserted |-> FALSE]
    ELSE [index |-> Put(index_, hs, path), inserted |-> TRUE]

\* The is_good callbacks handed to Scrub: g = [kind, hs, name].
IsGood(g, hs, path) ==
    CASE g.kind = "all" -> TRUE
      [] g.kind = "none" -> FALSE
      [] g.kind = "id" -> hs = g.hs
      [] g.kind = "not-id" -> hs # g.hs
      [] OTHER -> path.name = g.name

RamScrub(index_, g) ==
    [hs \in {h \in DOMAIN index_ : IsGood(g, h, index_[h])} |-> index_[hs]]

(***************************************************************************)
(* top_directory.cc                                                        *)
(***************************************************************************)
IsTopDir(d) == d \in {"root", "nested"}

\* TopDirectoryCache::GetTopDir: [topdir, level].
RECURSIVE GetTopDir(_)
GetTopDir(canonical_dir) ==
    IF IsTopDir(canonical_dir) THEN [topdir |-> canonical_dir, level |-> 0]
    ELSE IF Parent(canonical_dir) = canonical_dir
    THEN [topdir |-> "none", level |-> 0]  \* "Found no .frz directory"
    ELSE LET t == GetTopDir(Parent(canonical_dir))
         IN  [t EXCEPT !.level = @ + 1]

\* A variant that always goes up one level.
LinkTargetOneUp(subdir_levels) == << DotDot, FrzName >>
RECURSIVE LinkTarget(_)
LinkTarget(subdir_levels) ==
    IF subdir_levels = 0 THEN << FrzName >>
    ELSE << DotDot >> \o LinkTarget(subdir_levels - 1)

\* A variant that leaves out the directory of the hash family.
SymlinkTargetNoHashName(base32) == << FrzName >> \o SymlinkPath(base32)
SymlinkTarget(base32) == << FrzName, hash_name >> \o SymlinkPath(base32)

\* CreateHashdirSymlink on the .frz entries: [frz, error].
\* A variant that replaces whatever has the name .frz.
CreateHashdirSymlinkOverwriting(frz, dir, subdir_levels) ==
    IF subdir_levels = 0 THEN [frz |-> frz, error |-> FALSE]
    ELSE [frz |-> [frz EXCEPT ![dir] = Symlink(LinkTarget(subdir_levels))],
          error |-> FALSE]

\* A variant that is content with any symlink named .frz.
CreateHashdirSymlinkAnyTarget(frz, dir, subdir_levels) ==
    IF subdir_levels = 0 \/ frz[dir].kind = "symlink"
    THEN [frz |-> frz, error |-> FALSE]
    ELSE IF frz[dir].kind # "none" THEN [frz |-> frz, error |-> TRUE]
    ELSE [frz |-> [frz EXCEPT ![dir] = Symlink(LinkTarget(subdir_levels))],
          error |-> FALSE]

CreateHashdirSymlink(frz, dir, subdir_levels) ==
    IF subdir_levels = 0 THEN [frz |-> frz, error |-> FALSE]
    ELSE LET link_target == LinkTarget(subdir_levels)
             link_status == frz[dir]
         IN  IF link_status.kind = "symlink"
                    /\ link_status.target = link_target
             THEN [frz |-> frz, error |-> FALSE]
             ELSE IF link_status.kind # "symlink"
                         /\ link_status.kind # "none"
             THEN [frz |-> frz, error |-> TRUE]
             ELSE [frz |-> [frz EXCEPT ![dir] = Symlink(link_target)],
                   error |-> FALSE]

\* A variant of AddFile that keeps a duplicate blob in the content store.
AddFileKeepDuplicate(fs, file, pick) ==
    LET entry == fs.tree[file]
        hs == SizeHasherFinish(entry.bytes)
        mv == MoveInsert(fs.content, [bytes |-> entry.bytes,
                                      writable |-> TRUE], FALSE, pick)
        ins == IndexInsert(fs.index, hs,
                           [dir |-> "content", name |-> mv.path])
        hd == CreateHashdirSymlink(fs.frz, SlotDir(file),
                                   GetTopDir(SlotDir(file)).level)
    IN  IF GetTopDir(SlotDir(file)).topdir = "none" \/ hd.error
        THEN [fs |-> fs, result |-> "Error"]
        ELSE IF entry.kind = "symlink"
        THEN [fs |-> [fs EXCEPT !.frz = hd.frz], result |-> "Symlink"]
        ELSE [fs |-> [fs EXCEPT
                        !.frz = hd.frz,
                        !.tree[file] =
                            Symlink(SymlinkTarget(HsToBase32(hs))),
                        !.content = mv.store, !.index = ins.index],
              result |-> IF ins.inserted THEN "NewFile"
                         ELSE "DuplicateFile"]

\* A variant of AddFile that does not look whether the file is a symlink.
AddFileFollowingSymlink(fs, file, pick) ==
    LET entry == fs.tree[file]
        hs == SizeHasherFinish(entry.bytes)
        mv == MoveInsert(fs.content, [bytes |-> entry.bytes,
                                      writable |-> TRUE], FALSE, pick)
        ins == IndexInsert(fs.index, hs,
                           [dir |-> "content", name |-> mv.path])
        mv2 == MoveInsert(fs.unused, mv.store[mv.path], FALSE, pick)
        hd == CreateHashdirSymlink(fs.frz, SlotDir(file),
                                   GetTopDir(SlotDir(file)).level)
        fs2 == [fs EXCEPT !.frz = hd.frz,
                          !.tree[file] =
                              Symlink(SymlinkTarget(HsToBase32(hs)))]
    IN  IF GetTopDir(SlotDir(file)).topdir = "none" \/ hd.error
        THEN [fs |-> fs, result |-> "Error"]
        ELSE IF ins.inserted
        THEN [fs |-> [fs2 EXCEPT !.content = mv.store, !.index = ins.index],
              result |-> "NewFile"]
        ELSE [fs |-> [fs2 EXCEPT !.unused = mv2.store, !.unusedDir = TRUE],
              result |-> "DuplicateFile"]

\* TopDirectory::AddFile on the filesystem fs; [fs, result].  A file below
\* nested belongs to that repository, whose stores are not modelled: only a
\* symlink is ever added there.
AddFile(fs, file, pick) ==
    LET t  == GetTopDir(SlotDir(file))
        hd == CreateHashdirSymlink(fs.frz, SlotDir(file), t.level)
        fs1 == [fs EXCEPT !.frz = hd.frz]
        entry == fs.tree[file]
        hs == SizeHasherFinish(entry.bytes)
        base32 == HsToBase32(hs)
        \* rename to the temporary name, symlink in its place
        fs2 == [fs1 EXCEPT !.tree[file] = Symlink(SymlinkTarget(base32))]
        mv == MoveInsert(fs.content, [bytes |-> entry.bytes,
                                      writable |-> TRUE],
                         FALSE, pick)
        ins == IndexInsert(fs.index, hs,
                           [dir |-> "content", name |-> mv.path])
        mv2 == MoveInsert(fs.unused, mv.store[mv.path], FALSE, pick)
    IN  IF GetTopDir(SlotDir(file)).topdir = "none" \/ hd.error
        THEN [fs |-> fs, result |-> "Error"]
        ELSE IF entry.kind = "symlink" THEN [fs |-> fs1, result |-> "Symlink"]
        ELSE IF ins.inserted
        THEN [fs |-> [fs2 EXCEPT !.content = mv.store, !.index = ins.index],
              result |-> "NewFile"]
        ELSE [fs |-> [fs2 EXCEPT !.unused = mv2.store, !.unusedDir = TRUE],
              result |-> "DuplicateFile"]

\* The filesystem after each successive mutation AddFile makes for a regular
\* file it can add: [fs, temp], temp the file at the temporary name
\* <file>.frz-<hash-name>-<base32> if there is one.  The first state is the
\* one before the rename, the last the one AddFile returns in.  When the
\* file is on another filesystem than .frz/content (cross_device),
\* MoveInsert copies it and removes nothing.
AddFileTrace(fs, file, pick, cross_device) ==
    LET hd == CreateHashdirSymlink(fs.frz, SlotDir(file),
                                   GetTopDir(SlotDir(file)).level)
        bytes == fs.tree[file].bytes
        hs == SizeHasherFinish(bytes)
        destination == SuggestDestinationFilename(fs.content, pick)
        content_path == [dir |-> "content", name |-> destination]
        unused_destination == SuggestDestinationFilename(fs.unused, pick)
        s0 == [fs |-> [fs EXCEPT !.frz = hd.frz], temp |-> Nothing]
        \* rename(file, file2)
        s1 == [s0 EXCEPT !.fs.tree[file] = NoEntry, !.temp = Just(bytes)]
        \* create_symlink(SymlinkTarget(base32), file)
        s2 == [s1 EXCEPT !.fs.tree[file] =
                           Symlink(SymlinkTarget(HsToBase32(hs)))]
        \* MoveInsert: create_hard_link, or copy_file across filesystems
        s3 == [s2 EXCEPT !.fs.content =
                           Put(@, destination,
                               [bytes |-> bytes, writable |-> TRUE])]
        \* MoveInsert: remove(source)
        s4 == [s3 EXCEPT !.temp = Nothing]
        moved == IF cross_device THEN s3 ELSE s4
        \* RemoveWritePermissions(destination)
        s5 == [moved EXCEPT !.fs.content[destination] =
                              RemoveWritePermissions(@)]
        \* hash_index_->Insert(hs, content_path)
        s6 == [s5 EXCEPT !.fs.index =
                           IndexInsert(@, hs, content_path).index]
        \* unused_content_store_->MoveInsert(content_path)
        s7 == [s5 EXCEPT !.fs.unused =
                           Put(@, unused_destination,
                               s5.fs.content[destination]),
                         !.fs.unusedDir = TRUE]
        s8 == [s7 EXCEPT !.fs.content = Drop(@, destination)]
    IN  << s0, s1, s2, s3 >>
          \o (IF cross_device THEN << >> ELSE << s4 >>)
          \o << s5 >>
          \o (IF IndexInsert(fs.index, hs, content_path).inserted
              THEN << s6 >> ELSE << s7, s8 >>)

(***************************************************************************)
(* content_source.cc: DirectoryContentSource.  A source is                 *)
(* [id, read_only, files_listed, files_by_size, files_by_hash]; its        *)
(* directory is .frz/unused-content or an external one.                    *)
(***************************************************************************)
NameOrder == BlobNames \o << "f1", "f2" >>

\* Is the directory of this source on another filesystem than the store?
CrossDevice(id) == id = "L2"

\* The regular files of the source's directory: name -> bytes.
SourceDir(fs, id) ==
    IF id = "unused" THEN [n \in DOMAIN fs.unused |-> fs.unused[n].bytes]
    ELSE fs.loc[id]

RemoveFromSourceDir(fs, id, name) ==
    IF id = "unused" THEN [fs EXCEPT !.unused = Drop(@, name)]
    ELSE [fs EXCEPT !.loc[id] = Drop(@, name)]

NewSource(id, read_only) ==
    [id |-> id, read_only |-> read_only, files_listed |-> FALSE,
     files_by_size |-> EmptyFcn, files_by_hash |-> EmptyFcn]

\* ListFiles: on first use record size -> paths, in iteration order.
ListFiles(fs, src, rev) ==
    IF src.files_listed THEN src
    ELSE LET dir == SourceDir(fs, src.id)
             names == Listing(SelectSeq(NameOrder,
                                        LAMBDA n : n \in DOMAIN dir), rev)
             sizes == {Len(dir[n]) : n \in DOMAIN dir}
         IN  [src EXCEPT
                !.files_listed = TRUE,
                !.files_by_size =
                    [z \in sizes |->
                       SelectSeq(names, LAMBDA n : Len(dir[n]) = z)]]

\* ContentStore::StreamInsert: allocate a destination, let the callback
\* stream into it, keep it write-protected iff the callback returns true.
\* Returns [store, path].
StreamInsert(store, bytes, keep, pick) ==
    LET destination == SuggestDestinationFilename(store, pick)
    IN  IF keep
        THEN [store |-> Put(store, destination,
                            [bytes |-> bytes, writable |-> FALSE]),
              path |-> Just(destination)]
        ELSE [store |-> store, path |-> Nothing]

\* FindFile: [fs, src, found], found = Nothing or
\* Just([path, already_inserted]).  stream is TRUE when candidates are
\* stream-inserted into the content store while they are hashed.
RECURSIVE FindFile(_, _, _, _, _)
FindFile(fs, src, hs, stream, pick) ==
    IF hs \in DOMAIN src.files_by_hash
    THEN [fs |-> fs, src |-> src,
          found |-> Just([path |-> src.files_by_hash[hs],
                          already_inserted |-> FALSE])]
    ELSE IF hs.size \notin DOMAIN src.files_by_size
    THEN [fs |-> fs, src |-> src, found |-> Nothing]
    ELSE
      LET cands == src.files_by_size[hs.size]
          p == cands[Len(cands)]
          rest == SubSeq(cands, 1, Len(cands) - 1)
          dir == SourceDir(fs, src.id)
          popped == [src EXCEPT !.files_by_size =
                        IF rest = << >> THEN Drop(@, hs.size)
                        ELSE Put(@, hs.size, rest)]
      IN  IF p \notin DOMAIN dir
          THEN \* the file cannot be opened: logged, next candidate
               Let(popped, LAMBDA x : FindFile(fs, x, hs, stream, pick))
          ELSE
            LET p_hs == SizeHasherFinish(dir[p])
                si == StreamInsert(fs.content, dir[p], p_hs = hs, pick)
                fs2 == IF stream THEN [fs EXCEPT !.content = si.store]
                       ELSE fs
                src2 == [popped EXCEPT !.files_by_hash =
                            IF p_hs \in DOMAIN @ THEN @
                            ELSE Put(@, p_hs, p)]
            IN  IF p_hs = hs
                THEN [fs |-> fs2, src |-> src2,
                      found |->
                        Just([path |-> IF stream THEN Value(si.path)
                                       ELSE src2.files_by_hash[p_hs],
                              already_inserted |-> stream])]
                ELSE Let(<< fs2, src2 >>,
                         LAMBDA x : FindFile(x[1], x[2], hs, stream, pick))

\* Fetch: [fs, src, path]; path is the new blob's name in content/.
FetchFound(r, src, pick) ==
    LET dir == SourceDir(r.fs, src.id)
        p == Value(r.found).path
        blob == [bytes |-> dir[p], writable |-> TRUE]
        ci == CopyInsert(r.fs.content, blob, pick)
        mi == MoveInsert(r.fs.content, blob, CrossDevice(src.id), pick)
    IN  IF ~HasValue(r.found)
        THEN [fs |-> r.fs, src |-> r.src, path |-> Nothing]
        ELSE IF Value(r.found).already_inserted
        THEN [fs |-> r.fs, src |-> r.src, path |-> Just(p)]
        ELSE IF p \notin DOMAIN dir
        THEN \* inserting a file that is gone raises an Error: nullopt
             [fs |-> r.fs, src |-> r.src, path |-> Nothing]
        ELSE IF src.read_only
        THEN [fs |-> [r.fs EXCEPT !.content = ci.store],
              src |-> r.src, path |-> Just(ci.path)]
        ELSE [fs |-> IF mi.moved
                     THEN RemoveFromSourceDir(
                              [r.fs EXCEPT !.content = mi.store], src.id, p)
                     ELSE [r.fs EXCEPT !.content = mi.store],
              src |-> r.src, path |-> Just(mi.path)]
\* A variant of Fetch that treats every source as one to move from.
FetchAsMove(fs, src, hs, rev, pick) ==
    Let(ListFiles(fs, src, rev),
        LAMBDA listed :
          Let(FindFile(fs, listed, hs, FALSE, pick),
              LAMBDA r : FetchFound(r, [src EXCEPT !.read_only = FALSE],
                                    pick)))

Fetch(fs, src, hs, rev, pick) ==
    Let(ListFiles(fs, src, rev),
        LAMBDA listed :
          Let(FindFile(fs, listed, hs, src.read_only, pick),
              LAMBDA r : FetchFound(r, src, pick)))

(***************************************************************************)
(* top_directory.cc: FetchMissingContent.  The walk state st is            *)
(* [fs, sources, num_fetched, num_still_missing, error, assert_failed,     *)
(*  asked]; asked logs, for every symlink whose content was looked for,    *)
(* the Fetch calls made for it, each as [hs, source, got].                 *)
(***************************************************************************)
\* The loop over the sources for one missing hs: [st, fetched].
RECURSIVE TrySources(_, _, _, _, _)
\* A variant of the step below that goes on to the next source after one
\* has returned a blob.
TrySourcesNextNoBreak(st, f, hs, i, rev, pick) ==
    LET ins == IndexInsert(f.fs.index, hs,
                           [dir |-> "content", name |-> Value(f.path)])
        st2 == [st EXCEPT
                  !.fs = IF HasValue(f.path)
                         THEN [f.fs EXCEPT !.index = ins.index] ELSE f.fs,
                  !.sources[i] = f.src,
                  !.asked[Len(st.asked)] =
                      Append(@, [hs |-> hs, source |-> f.src.id,
                                 got |-> HasValue(f.path)])]
    IN  Let(TrySources(st2, hs, i + 1, rev, pick),
            LAMBDA t : [st |-> t.st,
                        fetched |-> t.fetched \/ HasValue(f.path)])

\* The step of the loop after source i answered f.
TrySourcesNext(st, f, hs, i, rev, pick) ==
    LET ins == IndexInsert(f.fs.index, hs,
                           [dir |-> "content", name |-> Value(f.path)])
        st2 == [st EXCEPT
                  !.fs = f.fs, !.sources[i] = f.src,
                  !.asked[Len(st.asked)] =
                      Append(@, [hs |-> hs, source |-> f.src.id,
                                 got |-> HasValue(f.path)])]
    IN  IF HasValue(f.path)
        THEN [st |-> [st2 EXCEPT
                        !.fs.index = ins.index,
                        !.assert_failed = @ \/ ~ins.inserted],
              fetched |-> ins.inserted]
        ELSE Let(st2, LAMBDA x : TrySources(x, hs, i + 1, rev, pick))
TrySources(st, hs, i, rev, pick) ==
    IF i > Len(st.sources) THEN [st |-> st, fetched |-> FALSE]
    ELSE Let(Fetch(st.fs, st.sources[i], hs, rev, pick),
             LAMBDA f : TrySourcesNext(st, f, hs, i, rev, pick))

\* A variant of FetchForSymlink that looks for the content whether or not
\* the index has it.
FetchForSymlinkAlways(st, dir, subdir_levels, hs, good_hashdir_symlink, rev, pick) ==
    LET hd == IF good_hashdir_symlink
              THEN [frz |-> st.fs.frz, error |-> FALSE]
              ELSE CreateHashdirSymlink(st.fs.frz, dir, subdir_levels)
        st1 == [st EXCEPT !.fs.frz = hd.frz, !.asked = Append(@, << >>)]
    IN  IF hd.error THEN [st EXCEPT !.error = TRUE]
        ELSE Let(TrySources(st1, hs, 1, rev, pick),
                 LAMBDA t :
                   IF t.fetched
                   THEN [t.st EXCEPT !.num_fetched = @ + 1]
                   ELSE IF IndexContains(st1.fs.index, hs) THEN t.st
                   ELSE [t.st EXCEPT !.num_still_missing = @ + 1])

\* A variant of FetchForSymlink that does not count what it could not
\* fetch.
FetchForSymlinkForgetsMissing(st, dir, subdir_levels, hs, good_hashdir_symlink, rev, pick) ==
    LET hd == IF good_hashdir_symlink
              THEN [frz |-> st.fs.frz, error |-> FALSE]
              ELSE CreateHashdirSymlink(st.fs.frz, dir, subdir_levels)
        st1 == [st EXCEPT !.fs.frz = hd.frz]
    IN  IF hd.error THEN [st EXCEPT !.error = TRUE]
        ELSE IF IndexContains(st1.fs.index, hs) THEN st1
        ELSE Let(TrySources([st1 EXCEPT !.asked = Append(@, << >>)],
                            hs, 1, rev, pick),
                 LAMBDA t :
                   IF t.fetched
                   THEN [t.st EXCEPT !.num_fetched = @ + 1]
                   ELSE t.st)

\* What the walk does for one user-facing symlink of directory dir.
FetchForSymlink(st, dir, subdir_levels, hs, good_hashdir_symlink, rev, pick) ==
    LET hd == IF good_hashdir_symlink
              THEN [frz |-> st.fs.frz, error |-> FALSE]
              ELSE CreateHashdirSymlink(st.fs.frz, dir, subdir_levels)
        st1 == [st EXCEPT !.fs.frz = hd.frz]
    IN  IF hd.error THEN [st EXCEPT !.error = TRUE]
        ELSE IF IndexContains(st1.fs.index, hs) THEN st1
        ELSE Let(TrySources([st1 EXCEPT !.asked = Append(@, << >>)],
                            hs, 1, rev, pick),
                 LAMBDA t :
                   IF t.fetched
                   THEN [t.st EXCEPT !.num_fetched = @ + 1]
                   ELSE [t.st EXCEPT !.num_still_missing = @ + 1])

RECURSIVE FetchMissingContentDir(_, _, _, _, _)
RECURSIVE FetchEntries(_, _, _, _, _, _, _)
FetchMissingContentDir(st, dir, subdir_levels, rev, pick) ==
    IF IsTopDir(dir) /\ subdir_levels > 0 THEN st  \* ignore other repos
    ELSE FetchEntries(st, dir, subdir_levels,
                      Listing(DirEntries(dir), rev), FALSE, rev, pick)
FetchEntries(st, dir, subdir_levels, entries, good_hashdir_symlink, rev, pick) ==
    IF entries = << >> \/ st.error THEN st
    ELSE
      LET dent == Head(entries)
      IN  IF ~IsSlotEntry(dent)
          THEN Let(FetchMissingContentDir(st, dent.dir, subdir_levels + 1,
                                          rev, pick),
                   LAMBDA x :
                     FetchEntries(x, dir, subdir_levels, Tail(entries),
                                  good_hashdir_symlink, rev, pick))
          ELSE
            LET entry == st.fs.tree[dent.slot]
                base32 == IF entry.kind = "symlink"
                          THEN PathBase32(hash_name, entry.target)
                          ELSE Nothing
                hs == IF HasValue(base32) THEN HsFromBase32(Value(base32))
                      ELSE Nothing
            IN  IF ~HasValue(hs)
                THEN FetchEntries(st, dir, subdir_levels, Tail(entries),
                                  good_hashdir_symlink, rev, pick)
                ELSE Let(FetchForSymlink(st, dir, subdir_levels, Value(hs),
                                         good_hashdir_symlink, rev, pick),
                         LAMBDA x :
                           FetchEntries(x, dir, subdir_levels, Tail(entries),
                                        TRUE, rev, pick))

\* A variant of FetchMissingContent that rewrites every user-facing symlink
\* it walked over with the target AddFile would give it.
FetchMissingContentRewritingTargets(fs, content_sources, rev, pick) ==
    LET all == (IF fs.unusedDir
                THEN << [path |-> "unused", read_only |-> FALSE] >>
                ELSE << >>) \o content_sources
        sources == [i \in 1..Len(all) |->
                      NewSource(all[i].path, all[i].read_only)]
        r == FetchMissingContentDir(
                 [fs |-> fs, sources |-> sources, num_fetched |-> 0,
                  num_still_missing |-> 0, error |-> FALSE,
                  assert_failed |-> FALSE, asked |-> << >>],
                 "root", 0, rev, pick)
        base32(s) == IF r.fs.tree[s].kind = "symlink"
                        /\ GetTopDir(SlotDir(s)).topdir = "root"
                     THEN PathBase32(hash_name, r.fs.tree[s].target)
                     ELSE Nothing
        hs(s) == IF HasValue(base32(s)) THEN HsFromBase32(Value(base32(s)))
                 ELSE Nothing
    IN  [r EXCEPT !.fs.tree =
           [s \in Paths |->
              IF HasValue(hs(s))
              THEN Symlink(SymlinkTarget(HsToBase32(Value(hs(s)))))
              ELSE r.fs.tree[s]]]

\* content_sources is a sequence of [path, read_only].
FetchMissingContent(fs, content_sources, rev, pick) ==
    LET all == (IF fs.unusedDir
                THEN << [path |-> "unused", read_only |-> FALSE] >>
                ELSE << >>) \o content_sources
        sources == [i \in 1..Len(all) |->
                      NewSource(all[i].path, all[i].read_only)]
    IN  FetchMissingContentDir(
            [fs |-> fs, sources |-> sources, num_fetched |-> 0,
             num_still_missing |-> 0, error |-> FALSE,
             assert_failed |-> FALSE, asked |-> << >>],
            "root", 0, rev, pick)

(***************************************************************************)
(* top_directory.cc: CheckIndexSymlinks (with DiskHashIndex::Scrub) and    *)
(* CheckContentFiles                                                       *)
(***************************************************************************)
\* A variant of the callback below that never re-hashes.
IndexSymlinkIsGoodFast(fs, hs, content_path, verify_all_hashes) ==
    LET canonical_content_path == CanonicalPath(content_path)
        name == Value(canonical_content_path)
    IN  /\ HasValue(canonical_content_path)
        /\ name \in DOMAIN fs.content
        /\ Len(fs.content[name].bytes) = hs.size

\* The is_good callback of CheckIndexSymlinks.
IndexSymlinkIsGood(fs, hs, content_path, verify_all_hashes) ==
    LET canonical_content_path == CanonicalPath(content_path)
        name == Value(canonical_content_path)
        bytes == fs.content[name].bytes
        num_bytes == IF Len(bytes) >= 1 THEN 1 ELSE 0
    IN  /\ HasValue(canonical_content_path)
        /\ name \in DOMAIN fs.content
        /\ Len(bytes) = hs.size
        /\ IF verify_all_hashes THEN SizeHasherFinish(bytes) = hs
           ELSE /\ ~(num_bytes = 0 /\ hs.size >= 1)
                /\ ~(num_bytes = 1 /\ hs.size < 1)

\* ScrubDir's syntax checks on an entry DD/DD/REST: the hs it names.
ScrubbedName(symlink) ==
    IF /\ Len(symlink[1]) = kSymlinkSubdirDigits
       /\ IsBase32Number(symlink[1])
       /\ Len(symlink[2]) = kSymlinkSubdirDigits
       /\ IsBase32Number(symlink[2])
    THEN HsFromBase32(symlink[1] \o symlink[2] \o symlink[3])
    ELSE Nothing

\* DiskHashIndex::Scrub with the callback g: an entry stays if its name
\* spells an ID and the callback finds the ID and the target good.
\* A variant of Scrub that leaves alone what it cannot read as an ID.
DiskScrubKeepsMalformed(index, g) ==
    [symlink \in {k \in DOMAIN index :
                    HasValue(ScrubbedName(k)) =>
                        IsGood(g, Value(ScrubbedName(k)), index[k])} |->
       index[symlink]]

\* An entry of the index directory that is no symlink, and dent.is_symlink().
NotASymlink == [dir |-> "none", name |-> ""]
IsSymlinkEntry(v) == v # NotASymlink

DiskScrub(index, g) ==
    [symlink \in {k \in DOMAIN index :
                    /\ IsSymlinkEntry(index[k])
                    /\ HasValue(ScrubbedName(k))
                    /\ IsGood(g, Value(ScrubbedName(k)), index[k])} |->
       index[symlink]]

\* [fs, num_good_index_symlinks, num_bad_index_symlinks,
\*  indexed_content_files]
CheckIndexSymlinks(fs, verify_all_hashes) ==
    LET wellformed == {k \in DOMAIN fs.index : HasValue(ScrubbedName(k))}
        good == {k \in wellformed :
                   IndexSymlinkIsGood(fs, Value(ScrubbedName(k)),
                                      fs.index[k], verify_all_hashes)}
    IN  [fs |-> [fs EXCEPT !.index = [k \in good |-> fs.index[k]]],
         num_good_index_symlinks |-> Cardinality(good),
         num_bad_index_symlinks |-> Cardinality(wellformed \ good),
         indexed_content_files |-> {fs.index[k].name : k \in good}]

\* The ForEach callback of CheckContentFiles over the blob names in
\* iteration order; st = [fs, num_missing_index_symlinks,
\* num_duplicate_content_files].
RECURSIVE CheckContentFilesLoop(_, _, _, _)
\* A variant of the callback that counts a duplicate and leaves it where it
\* is.
CheckContentFilesLoopKeepsDuplicate(st, names, indexed_content_files, pick) ==
    IF names = << >> THEN st
    ELSE
      LET name == Head(names)
          blob == RemoveWritePermissions(st.fs.content[name])
          fs1 == [st.fs EXCEPT !.content[name] = blob]
          hs == SizeHasherFinish(blob.bytes)
          ins == IndexInsert(fs1.index, hs,
                             [dir |-> "content", name |-> name])
          st2 ==
            IF name \in indexed_content_files THEN [st EXCEPT !.fs = fs1]
            ELSE IF ins.inserted
            THEN [st EXCEPT !.fs = [fs1 EXCEPT !.index = ins.index],
                            !.num_missing_index_symlinks = @ + 1]
            ELSE [st EXCEPT !.fs = fs1,
                            !.num_duplicate_content_files = @ + 1]
      IN  Let(st2, LAMBDA x :
                CheckContentFilesLoop(x, Tail(names), indexed_content_files,
                                      pick))

CheckContentFilesLoop(st, names, indexed_content_files, pick) ==
    IF names = << >> THEN st
    ELSE
      LET name == Head(names)
          blob == RemoveWritePermissions(st.fs.content[name])
          fs1 == [st.fs EXCEPT !.content[name] = blob]
          hs == SizeHasherFinish(blob.bytes)
          ins == IndexInsert(fs1.index, hs,
                             [dir |-> "content", name |-> name])
          mv == MoveInsert(fs1.unused, blob, FALSE, pick)
          st2 ==
            IF name \in indexed_content_files THEN [st EXCEPT !.fs = fs1]
            ELSE IF ins.inserted
            THEN [st EXCEPT !.fs = [fs1 EXCEPT !.index = ins.index],
                            !.num_missing_index_symlinks = @ + 1]
            ELSE [st EXCEPT
                    !.fs = [fs1 EXCEPT !.content = Drop(@, name),
                                       !.unused = mv.store,
                                       !.unusedDir = TRUE],
                    !.num_duplicate_content_files = @ + 1]
      IN  Let(st2, LAMBDA x :
                CheckContentFilesLoop(x, Tail(names), indexed_content_files,
                                      pick))

\* A variant of Phase B that trusts no file to be indexed.
CheckContentFilesTrustsNone(fs, indexed_content_files, rev, pick) ==
    CheckContentFilesLoop(
        [fs |-> fs, num_missing_index_symlinks |-> 0,
         num_duplicate_content_files |-> 0],
        Listing(SelectSeq(BlobNames, LAMBDA n : n \in DOMAIN fs.content),
                rev),
        {}, pick)

CheckContentFiles(fs, indexed_content_files, rev, pick) ==
    CheckContentFilesLoop(
        [fs |-> fs, num_missing_index_symlinks |-> 0,
         num_duplicate_content_files |-> 0],
        Listing(SelectSeq(BlobNames, LAMBDA n : n \in DOMAIN fs.content),
                rev),
        indexed_content_files, pick)

\* TopDirectory::Repair: the three phases in order.
RepairResult(fs, verify_all_hashes, content_sources, rev, pick) ==
    Let(CheckIndexSymlinks(fs, verify_all_hashes),
        LAMBDA r1 :
          Let(CheckContentFiles(r1.fs, r1.indexed_content_files, rev, pick),
              LAMBDA r2 :
                [r1 |-> r1, r2 |-> r2,
                 r3 |-> FetchMissingContent(r2.fs, content_sources, rev,
                                            pick)]))

(***************************************************************************)
(* State                                                                   *)
(***************************************************************************)
VARIABLES
    tree,       \* the user's entry at each slot of the working tree
    frz,        \* the entry named .frz in each sub-directory
    content,    \* .frz/content: blob name -> [bytes, writable]
    unused,     \* .frz/unused-content, likewise
    unusedDir,  \* does .frz/unused-content exist?
    index,      \* .frz/<hash-name>: DD/DD/REST -> target of the symlink
    loc,        \* the external directories: locator -> file name -> bytes
    last,       \* what the last command did and reported
    env         \* environment steps taken so far

vars == << tree, frz, content, unused, unusedDir, index, loc, last, env >>

FS == [tree |-> tree, frz |-> frz, content |-> content, unused |-> unused,
       unusedDir |-> unusedDir, index |-> index, loc |-> loc]

SetFS(fs) ==
    /\ tree' = fs.tree
    /\ frz' = fs.frz
    /\ content' = fs.content
    /\ unused' = fs.unused
    /\ unusedDir' = fs.unusedDir
    /\ index' = fs.index
    /\ loc' = fs.loc

NoResults == [s \in Paths |-> "-"]
NoCommand ==
    [cmd |-> "none", arg |-> "-", rc |-> 0, reported |-> FALSE,
     results |-> NoResults,
     successful |-> 0, duplicates |-> 0, nonfiles |-> 0, errors |-> 0,
     verify_all_hashes |-> FALSE,
     num_good_index_symlinks |-> 0, num_bad_index_symlinks |-> 0,
     num_missing_index_symlinks |-> 0, num_duplicate_content_files |-> 0,
     num_fetched |-> 0, num_still_missing |-> 0]

(***************************************************************************)
(* command.cc: add                                                         *)
(***************************************************************************)
\* The slots below a directory in the order a recursive iteration meets them.
RECURSIVE SlotsUnder(_, _)
RECURSIVE SlotsOfEntries(_, _)
SlotsUnder(dir, rev) == SlotsOfEntries(Listing(DirEntries(dir), rev), rev)
SlotsOfEntries(entries, rev) ==
    IF entries = << >> THEN << >>
    ELSE (IF IsSlotEntry(Head(entries)) THEN << Head(entries).slot >>
          ELSE SlotsUnder(Head(entries).dir, rev))
         \o SlotsOfEntries(Tail(entries), rev)

\* The add_file lambda over a sequence of paths; st carries the filesystem
\* and the counters.
RECURSIVE AddFiles(_, _, _)
AddFiles(st, files, pick) ==
    IF files = << >> THEN st
    ELSE LET file == Head(files)
             kind == st.fs.tree[file].kind
             r == AddFile(st.fs, file, pick)
             st2 ==
               IF kind = "none"
               THEN [st EXCEPT !.nonfiles = @ + 1,
                               !.results[file] = "NonFile"]
               ELSE [st EXCEPT
                       !.fs = r.fs,
                       !.results[file] = r.result,
                       !.successful =
                           IF r.result = "NewFile" THEN @ + 1 ELSE @,
                       !.duplicates =
                           IF r.result = "DuplicateFile" THEN @ + 1 ELSE @,
                       !.errors = IF r.result = "Error" THEN @ + 1 ELSE @]
         IN  Let(st2, LAMBDA x : AddFiles(x, Tail(files), pick))

\* Add with one path argument: a file, or a directory to add recursively.
AddResult(fs, arg, rev, pick) ==
    LET files == IF arg \in Paths THEN << arg >>
                 ELSE SelectSeq(SlotsUnder(arg, rev),
                                LAMBDA s : fs.tree[s].kind # "none")
    IN  AddFiles([fs |-> fs, results |-> NoResults, successful |-> 0,
                  duplicates |-> 0, nonfiles |-> 0, errors |-> 0],
                 files, pick)

Add(arg, rev, pick) ==
    \E st \in {AddResult(FS, arg, rev, pick)} :
        /\ SetFS(st.fs)
        /\ last' = [NoCommand EXCEPT
                      !.cmd = "add", !.arg = arg, !.results = st.results,
                      !.successful = st.successful,
                      !.duplicates = st.duplicates,
                      !.nonfiles = st.nonfiles, !.errors = st.errors,
                      !.reported = TRUE,
                      !.rc = IF st.errors = 0 THEN 0 ELSE 1]
        /\ UNCHANGED env

(***************************************************************************)
(* command.cc: fill and repair                                             *)
(***************************************************************************)
CopyFrom(dir) == [option |-> "--copy-from", dir |-> dir]
MoveFrom(dir) == [option |-> "--move-from", dir |-> dir]

\* ContentSourceOptions::GetResult: merge the two option lists in the order
\* the options were parsed.
RECURSIVE Interleave(_, _, _)
Interleave(parse_order, copy_from, move_from) ==
    IF parse_order = << >> THEN << >>
    ELSE IF Head(parse_order).option = "--copy-from"
    THEN << [path |-> Head(copy_from), read_only |-> TRUE] >>
         \o Interleave(Tail(parse_order), Tail(copy_from), move_from)
    ELSE << [path |-> Head(move_from), read_only |-> FALSE] >>
         \o Interleave(Tail(parse_order), copy_from, Tail(move_from))
GetResult(parse_order) ==
    LET dirs(opt) ==
          LET sel == SelectSeq(parse_order, LAMBDA o : o.option = opt)
          IN  [i \in 1..Len(sel) |-> sel[i].dir]
    IN  Interleave(parse_order, dirs("--copy-from"), dirs("--move-from"))

\* The command lines tried.
CommandLines ==
    { << >>,
      << MoveFrom("L1") >>, << CopyFrom("L1") >>, << MoveFrom("L2") >>,
      << MoveFrom("L1"), CopyFrom("L2") >>,
      << CopyFrom("L2"), MoveFrom("L1") >> }

\* Every store can still name as many new blobs as one command may need.
RoomFor(fs) ==
    /\ Len(FreeNames(fs.content)) >= Cardinality(Slots)
    /\ Len(FreeNames(fs.unused)) >= Cardinality(Slots)

Fill(args, rev, pick) ==
    \E r \in {FetchMissingContent(FS, GetResult(args), rev, pick)} :
        /\ SetFS(r.fs)
        /\ last' = [NoCommand EXCEPT
                      !.cmd = "fill", !.reported = ~r.error,
                      !.num_fetched = IF r.error THEN 0 ELSE r.num_fetched,
                      !.num_still_missing =
                          IF r.error THEN 0 ELSE r.num_still_missing,
                      !.rc = IF r.error THEN 1
                             ELSE IF r.num_still_missing = 0 THEN 0 ELSE 1]
        /\ UNCHANGED env

Repair(fast, args, rev, pick) ==
    \E r \in {RepairResult(FS, ~fast, GetResult(args), rev, pick)} :
        /\ SetFS(r.r3.fs)
        /\ last' =
             IF r.r3.error
             THEN [NoCommand EXCEPT !.cmd = "repair", !.rc = 1,
                                    !.verify_all_hashes = ~fast]
             ELSE [NoCommand EXCEPT
                     !.cmd = "repair", !.reported = TRUE,
                     !.verify_all_hashes = ~fast,
                     !.num_good_index_symlinks = r.r1.num_good_index_symlinks,
                     !.num_bad_index_symlinks = r.r1.num_bad_index_symlinks,
                     !.num_missing_index_symlinks =
                         r.r2.num_missing_index_symlinks,
                     !.num_duplicate_content_files =
                         r.r2.num_duplicate_content_files,
                     !.num_fetched = r.r3.num_fetched,
                     !.num_still_missing = r.r3.num_still_missing,
                     !.rc = IF r.r3.num_still_missing = 0 THEN 0 ELSE 1]
        /\ UNCHANGED env

(***************************************************************************)
(* The environment: the user, the version-control tool, and damage         *)
(***************************************************************************)
\* A checkout leaves a user-facing symlink whose content is not here.
EnvCheckout(s, bytes, upper) ==
    LET base32 == HsToBase32(SizeHasherFinish(bytes))
    IN  /\ env < MaxEnv
        /\ s # "n"
        /\ tree' = [tree EXCEPT ![s] =
                      Symlink(SymlinkTarget(IF upper THEN ToUpper(base32)
                                            ELSE base32))]
        /\ env' = env + 1
        /\ last' = NoCommand
        /\ UNCHANGED << frz, content, unused, unusedDir, index, loc >>

\* Someone removes, replaces or mis-targets a .frz entry.
EnvFrz(d, e) ==
    /\ env < MaxEnv
    /\ frz[d] # e
    /\ frz' = [frz EXCEPT ![d] = e]
    /\ env' = env + 1
    /\ last' = NoCommand
    /\ UNCHANGED << tree, content, unused, unusedDir, index, loc >>

FrzDamage == {NoEntry, RegularFile(<< >>), Symlink(LinkTarget(1))}

\* Someone removes a blob, makes it writable, or makes it writable and
\* rewrites it with one more byte or with another byte in place of the last.
Damaged(blob, how) ==
    CASE how = "chmod"  -> [blob EXCEPT !.writable = TRUE]
      [] how = "append" -> [bytes |-> Append(blob.bytes, 1),
                            writable |-> TRUE]
      [] OTHER          -> [bytes |-> IF blob.bytes = << >> THEN << >>
                                      ELSE SubSeq(blob.bytes, 1,
                                                  Len(blob.bytes) - 1)
                                           \o << 3 - blob.bytes[
                                                      Len(blob.bytes)] >>,
                            writable |-> TRUE]
EnvBlob(name, how) ==
    /\ env < MaxEnv
    /\ name \in DOMAIN content
    /\ content' = IF how = "remove" THEN Drop(content, name)
                  ELSE [content EXCEPT ![name] = Damaged(@, how)]
    /\ content' # content
    /\ env' = env + 1
    /\ last' = NoCommand
    /\ UNCHANGED << tree, frz, unused, unusedDir, index, loc >>

\* Someone removes an index entry or points it outside .frz/content.
EnvIndex(symlink, how) ==
    /\ env < MaxEnv
    /\ symlink \in DOMAIN index
    /\ index' = IF how = "remove" THEN Drop(index, symlink)
                ELSE [index EXCEPT ![symlink] =
                        [dir |-> "elsewhere", name |-> @.name]]
    /\ index' # index
    /\ env' = env + 1
    /\ last' = NoCommand
    /\ UNCHANGED << tree, frz, content, unused, unusedDir, loc >>

Init ==
    /\ tree \in {t \in [Paths -> {RegularFile(B1), RegularFile(B2),
                                  RegularFile(<< >>),
                                  Symlink(SymlinkTarget(HsToBase32(
                                      SizeHasherFinish(B2))))}] :
                   /\ t["a"] \in {RegularFile(B1), RegularFile(B2)}
                   /\ t["b"] = RegularFile(B1)
                   /\ t["c"] \in {RegularFile(B1), RegularFile(<< >>)}
                   /\ t["n"].kind = "symlink"
                   /\ t["x"] = RegularFile(B2)}
    /\ frz = [d \in SubDirs |-> NoEntry]
    /\ content = EmptyFcn
    /\ unused = EmptyFcn
    /\ unusedDir = FALSE
    /\ index = EmptyFcn
    /\ loc = [l \in Locators |->
                IF l = "L1" THEN ("f1" :> B1 @@ "f2" :> B2)
                ELSE ("f1" :> B1)]
    /\ last = NoCommand
    /\ env = 0

Next ==
    \/ \E arg \in (Paths \ {"n"}) \cup {"root", "sub", "outside"},
          rev \in BOOLEAN, pick \in 1..NameFanout :
           RoomFor(FS) /\ Add(arg, rev, pick)
    \/ \E args \in CommandLines, rev \in BOOLEAN, pick \in 1..NameFanout :
           RoomFor(FS) /\ Fill(args, rev, pick)
    \/ \E fast \in BOOLEAN, args \in CommandLines, rev \in BOOLEAN,
          pick \in 1..NameFanout :
           RoomFor(FS) /\ Repair(fast, args, rev, pick)
    \/ \E s \in Slots, bytes \in {B1, B2}, upper \in BOOLEAN :
           EnvCheckout(s, bytes, upper)
    \/ \E d \in SubDirs, e \in FrzDamage : EnvFrz(d, e)
    \/ \E name \in DOMAIN content,
          how \in {"remove", "chmod", "append", "flip"} : EnvBlob(name, how)
    \/ \E symlink \in DOMAIN index, how \in {"remove", "retarget"} :
           EnvIndex(symlink, how)

Spec == Init /\ [][Next]_vars

(***************************************************************************)
(* What a reader of the working tree sees                                  *)
(***************************************************************************)
Depth(d) == GetTopDir(d).level

\* The directory k levels above d, or "outside" above the root.
RECURSIVE Up(_, _)
Up(d, k) ==
    IF k = 0 THEN d
    ELSE IF d \in {"root", "outside"} THEN "outside"
    ELSE Up(Parent(d), k - 1)

\* Does the name .frz, looked up in directory d, lead to the metadata
\* directory of root?  fuel bounds the symlinks followed.
RECURSIVE ReachesMetadata(_, _, _)
ReachesMetadata(fs, d, fuel) ==
    IF d = "root" THEN TRUE
    ELSE IF d \notin SubDirs \/ fuel = 0 THEN FALSE
    ELSE LET e == fs.frz[d]
             ups == Len(e.target) - 1
         IN  /\ e.kind = "symlink"
             /\ Len(e.target) >= 1
             /\ e.target[Len(e.target)] = FrzName
             /\ \A i \in 1..ups : e.target[i] = DotDot
             /\ ReachesMetadata(fs, Up(d, ups), fuel - 1)

\* The bytes read through the entry at slot s: Just(bytes), or Nothing if
\* the path does not resolve to a regular file.
ReadContents(fs, s) ==
    LET e == fs.tree[s]
        t == e.target
        symlink == << t[3], t[4], t[5] >>
        blob == fs.index[symlink]
    IN  IF e.kind = "file" THEN Just(e.bytes)
        ELSE IF /\ e.kind = "symlink"
                /\ Len(t) = 5
                /\ t[1] = FrzName
                /\ t[2] = hash_name
                /\ ReachesMetadata(fs, SlotDir(s), Cardinality(SubDirs))
                /\ symlink \in DOMAIN fs.index
                /\ blob.dir = "content"
                /\ blob.name \in DOMAIN fs.content
        THEN Just(fs.content[blob.name].bytes)
        ELSE Nothing

\* The ID a symlink entry names, as FetchMissingContentDir parses it.
LinkId(entry) ==
    LET base32 == IF entry.kind = "symlink"
                  THEN PathBase32(hash_name, entry.target)
                  ELSE Nothing
    IN  IF HasValue(base32) THEN HsFromBase32(Value(base32)) ELSE Nothing

\* The user-facing symlinks of the repository at root.
UserLinks(fs) ==
    {s \in Slots : GetTopDir(SlotDir(s)).topdir = "root"
                   /\ HasValue(LinkId(fs.tree[s]))}

BlobsWith(store, bytes) == {n \in DOMAIN store : store[n].bytes = bytes}
AllReadonly(store) == \A n \in DOMAIN store : IsReadonly(store[n])

\* The step is a command (the environment's steps count in env).
CommandStep == env' = env

FSNext == [tree |-> tree', frz |-> frz', content |-> content',
           unused |-> unused', unusedDir |-> unusedDir', index |-> index',
           loc |-> loc']

AddStep == CommandStep /\ last'.cmd = "add"
Added == {"NewFile", "DuplicateFile"}

AddedWith(bytes) ==
    {s \in Slots : /\ tree[s].kind = "file"
                   /\ tree[s].bytes = bytes
                   /\ last'.results[s] \in Added}

(***************************************************************************)
(* C2.  Deduplication on add: when an add command adds n >= 1 files with   *)
(* the same bytes and the repository held that content nowhere, exactly    *)
(* one blob with those bytes is in .frz/content afterwards and exactly     *)
(* n - 1 are in .frz/unused-content, one file was reported NewFile and     *)
(* the others DuplicateFile; when the content was already indexed, every   *)
(* one of the n files is reported DuplicateFile and its blob goes to       *)
(* .frz/unused-content.                                                    *)
(***************************************************************************)
C2_DeduplicationOnAdd ==
    [][AddStep =>
         \A bytes \in Contents :
           LET files == AddedWith(bytes)
               n == Cardinality(files)
               new == {s \in files : last'.results[s] = "NewFile"}
               hs == SizeHasherFinish(bytes)
           IN  n >= 1 =>
                 /\ ( /\ ~IndexContains(index, hs)
                      /\ BlobsWith(content, bytes) = {}
                      /\ BlobsWith(unused, bytes) = {} )
                    => /\ Cardinality(BlobsWith(content', bytes)) = 1
                       /\ Cardinality(BlobsWith(unused', bytes)) = n - 1
                       /\ Cardinality(new) = 1
                 /\ IndexContains(index, hs)
                    => /\ new = {}
                       /\ BlobsWith(content', bytes) = BlobsWith(content, bytes)
                       /\ Cardinality(BlobsWith(unused', bytes))
                            = Cardinality(BlobsWith(unused, bytes)) + n
      ]_vars

\* Three files with the same bytes were added by one command.
C2_Witness ==
    /\ last.cmd = "add"
    /\ last.successful = 1
    /\ last.duplicates = 2
    /\ Cardinality(BlobsWith(content, B1)) = 1
    /\ Cardinality(BlobsWith(unused, B1)) = 2

\* The index entry for hs, if there is one, leads to a blob with that ID.
Intact(fs, hs) ==
    IndexContains(fs.index, hs) =>
      LET path == fs.index[SymlinkPath(HsToBase32(hs))]
      IN  /\ path.dir = "content"
          /\ path.name \in DOMAIN fs.content
          /\ SizeHasherFinish(fs.content[path.name].bytes) = hs

Obstructed(d) == d \in SubDirs /\ frz[d].kind = "file"

RECURSIVE PathFromRoot(_)
PathFromRoot(d) == IF IsTopDir(d) THEN {} ELSE {d} \cup PathFromRoot(Parent(d))

Oracles == BOOLEAN \X (1..NameFanout)

\* The outcomes of fill with this command line.
FillOutcomes(args) ==
    {FetchMissingContent(FS, GetResult(args), o[1], o[2]) : o \in Oracles}

\* The outcomes of repair with this command line.
RepairOutcomes(args) ==
    {RepairResult(FS, verify_all_hashes, GetResult(args), o[1], o[2]) :
       verify_all_hashes \in BOOLEAN, o \in Oracles}

\* The locators in the order of their priority.
Priority(fs, args) ==
    (IF fs.unusedDir THEN << "unused" >> ELSE << >>)
        \o [i \in 1..Len(args) |-> args[i].dir]

\* The ID of a user-facing symlink, and whether the index has it.
IdAt(fs, s) == Value(LinkId(fs.tree[s]))
Indexed(fs, s) == IndexContains(fs.index, IdAt(fs, s))

\* The locator that returned the blob in this round of consultations.
Won(round, l) ==
    /\ Len(round) >= 1
    /\ round[Len(round)].got
    /\ round[Len(round)].source = l

\* r is an outcome of looking for missing content from fs: indexed IDs are
\* left alone.
TrustsTheIndex(fs, r) ==
    LET indexed == {s \in UserLinks(fs) : Indexed(fs, s)}
    IN  /\ \A s \in indexed :
             LET symlink == SymlinkPath(HsToBase32(IdAt(fs, s)))
                 path == fs.index[symlink]
             IN  /\ \A i \in 1..Len(r.asked) :
                      \A j \in 1..Len(r.asked[i]) :
                        r.asked[i][j].hs # IdAt(fs, s)
                 /\ symlink \in DOMAIN r.fs.index
                 /\ r.fs.index[symlink] = path
                 /\ (path.dir = "content" /\ path.name \in DOMAIN fs.content)
                    => /\ path.name \in DOMAIN r.fs.content
                       /\ r.fs.content[path.name] = fs.content[path.name]
        /\ r.num_still_missing + r.num_fetched
             <= Cardinality(UserLinks(fs) \ indexed)
        /\ UserLinks(fs) = indexed
           => /\ r.asked = << >>
              /\ r.fs.content = fs.content
              /\ r.fs.index = fs.index
              /\ r.fs.unused = fs.unused
              /\ r.fs.loc = fs.loc

\* r is an outcome of looking for missing content from fs with this command
\* line: every round asks the locators in priority order and stops at the
\* first that returns a blob, and a locator that returned none keeps its
\* files.
ConsultsInOrder(fs, args, r) ==
    LET priority == Priority(fs, args)
    IN  /\ \A i \in 1..Len(r.asked) :
             LET round == r.asked[i]
             IN  /\ Len(round) <= Len(priority)
                 /\ \A j \in 1..Len(round) :
                      /\ round[j].source = priority[j]
                      /\ round[j].hs = round[1].hs
                      /\ j < Len(round) => ~round[j].got
                 /\ Len(round) < Len(priority) => Won(round, priority[Len(round)])
        /\ \A l \in Locators :
             (\A i \in 1..Len(r.asked) : ~Won(r.asked[i], l))
             => r.fs.loc[l] = fs.loc[l]
        /\ (\A i \in 1..Len(r.asked) : ~Won(r.asked[i], "unused"))
           => r.fs.unused = fs.unused

\* r is an outcome of looking for missing content from fs with this command
\* line: what each external directory lost is what was moved out of it.
KeepsOrTakesOne(fs, args, r) ==
    \A l \in Locators :
      LET won == {i \in 1..Len(r.asked) : Won(r.asked[i], l)}
          removed == DOMAIN fs.loc[l] \ DOMAIN r.fs.loc[l]
          moves == \E i \in 1..Len(args) : args[i] = MoveFrom(l)
      IN  /\ \A f \in DOMAIN r.fs.loc[l] :
               f \in DOMAIN fs.loc[l] /\ r.fs.loc[l][f] = fs.loc[l][f]
          /\ IF moves /\ ~CrossDevice(l)
             THEN /\ Cardinality(removed) = Cardinality(won)
                  /\ \A f \in removed :
                       \E i \in won :
                         r.asked[i][1].hs = SizeHasherFinish(fs.loc[l][f])
             ELSE removed = {}

(***************************************************************************)
(* C6.  fill trusts what is indexed: for a user-facing symlink whose ID    *)
(* has an index entry, fill asks no locator for that ID and leaves the     *)
(* entry and the blob it names as they are, whatever the state of the      *)
(* blob; only symlinks whose ID is not indexed are counted as fetched or   *)
(* still missing.                                                          *)
(***************************************************************************)
C6_FillTrustsTheIndex ==
    \A args \in CommandLines :
      \A r \in FillOutcomes(args) : TrustsTheIndex(FS, r)

\* fill has just reported success although a user-facing symlink with an
\* indexed ID does not read back the content of that ID.
C6_Witness ==
    /\ last.cmd = "fill"
    /\ last.reported
    /\ last.rc = 0
    /\ \E s \in UserLinks(FS) :
         /\ Indexed(FS, s)
         /\ LET read == ReadContents(FS, s)
            IN  \/ ~HasValue(read)
                \/ SizeHasherFinish(Value(read)) # IdAt(FS, s)

(***************************************************************************)
(* C7.  For every missing ID fill and repair ask the locators in priority  *)
(* order, .frz/unused-content first and then the directories in command    *)
(* line order, they stop at the first that returns a blob, and a locator   *)
(* that was not asked or returned nothing loses no file.                   *)
(***************************************************************************)
C7_LocatorsInPriorityOrder ==
    \A args \in CommandLines :
      /\ \A r \in FillOutcomes(args) : ConsultsInOrder(FS, args, r)
      /\ \A r \in RepairOutcomes(args) : ConsultsInOrder(r.r2.fs, args, r.r3)

\* From here a fill with two directories asks .frz/unused-content in vain,
\* gets the blob from the first directory and does not ask the second.
C7_Witness ==
    \E args \in CommandLines :
      /\ Len(args) = 2
      /\ unusedDir
      /\ \E r \in FillOutcomes(args) :
           \E i \in 1..Len(r.asked) :
             /\ Len(r.asked[i]) = 2
             /\ Won(r.asked[i], args[1].dir)

(***************************************************************************)
(* C8.  A fetch from a copy locator leaves every file of its directory in  *)
(* place and unchanged; a fetch from a move locator on the same filesystem *)
(* removes the one file it took and no other.                              *)
(***************************************************************************)
C8_CopyKeepsMoveTakesOne ==
    \A args \in CommandLines :
      \A r \in FillOutcomes(args) : KeepsOrTakesOne(FS, args, r)

\* fill has just fetched one blob by moving it out of L1, which keeps its
\* other file.
C8_Witness ==
    /\ last.cmd = "fill"
    /\ last.num_fetched = 1
    /\ DOMAIN loc["L1"] = {"f2"}
    /\ DOMAIN loc["L2"] = {"f1"}

(***************************************************************************)
(* C9.  fill and repair exit with 0 exactly when they report that nothing  *)
(* is still missing, and whenever they report that, every user-facing      *)
(* symlink of the repository has an index entry for its ID.                *)
(***************************************************************************)
C9_ExitCodeAndStillMissing ==
    last.cmd \in {"fill", "repair"} =>
      /\ last.rc = 0 <=> (last.reported /\ last.num_still_missing = 0)
      /\ (last.reported /\ last.num_still_missing = 0)
         => \A s \in UserLinks(FS) : Indexed(FS, s)

\* fill has just fetched something and exited with 0.
C9_Witness ==
    /\ last.cmd = "fill"
    /\ last.rc = 0
    /\ last.num_fetched >= 1
    /\ UserLinks(FS) # {}

\* The size, or the size and digest, of the target of an entry fit its name.
TargetFits(symlink, verify_all_hashes) ==
    LET hs == Value(FromBase32(symlink[1] \o symlink[2] \o symlink[3]))
        path == index[symlink]
    IN  /\ path.dir = "content"
        /\ path.name \in DOMAIN content
        /\ Len(content[path.name].bytes) = hs.size
        /\ verify_all_hashes => HasherFinish(content[path.name].bytes) = hs.hash

ResultStruct(r) ==
    [num_good_index_symlinks |-> r.r1.num_good_index_symlinks,
     num_bad_index_symlinks |-> r.r1.num_bad_index_symlinks,
     num_missing_index_symlinks |-> r.r2.num_missing_index_symlinks,
     num_duplicate_content_files |-> r.r2.num_duplicate_content_files,
     num_fetched |-> r.r3.num_fetched,
     num_still_missing |-> r.r3.num_still_missing]

\* The repair changed nothing.
NoChangeCounts(res) ==
    /\ res.num_bad_index_symlinks = 0
    /\ res.num_missing_index_symlinks = 0
    /\ res.num_duplicate_content_files = 0
    /\ res.num_fetched = 0

\* second is a repair run directly after the repair first, which left fs.
RepairedAgain(first, second) ==
    /\ ~second.r3.error
    /\ NoChangeCounts(ResultStruct(second))
    /\ second.r3.fs.index = first.r3.fs.index
    /\ second.r3.fs.content = first.r3.fs.content
    /\ second.r3.fs.unused = first.r3.fs.unused
    /\ second.r1.num_good_index_symlinks
         = Cardinality(DOMAIN first.r3.fs.index)
    /\ second.r3.num_still_missing = first.r3.num_still_missing
    /\ NoChangeCounts(ResultStruct(first))
       => ResultStruct(second) = ResultStruct(first)

(***************************************************************************)
(* C11.  repair is idempotent: a repair run directly after a repair that   *)
(* ran to its end, in the same mode and with the same locators, reports    *)
(* no bad index symlink, no missing index symlink, no duplicate content    *)
(* file and nothing fetched, leaves the index, content and unused-content  *)
(* as they were, and counts every index entry as good; when the first run  *)
(* had nothing to change either, the two result structs are equal.         *)
(***************************************************************************)
C11_RepairIsIdempotent ==
    \A args \in CommandLines, verify_all_hashes \in BOOLEAN, o \in Oracles :
      \A first \in {RepairResult(FS, verify_all_hashes, GetResult(args),
                                 o[1], o[2])} :
        ~first.r3.error =>
          \A o2 \in Oracles :
            RepairedAgain(first,
                          RepairResult(first.r3.fs, verify_all_hashes,
                                       GetResult(args), o2[1], o2[2]))

\* A repair has just removed a bad index symlink and fetched a blob, and a
\* repair from here has nothing left to change.
C11_Witness ==
    /\ last.cmd = "repair"
    /\ last.reported
    /\ last.num_bad_index_symlinks >= 1
    /\ last.num_fetched >= 1
    /\ index # EmptyFcn
    /\ NoChangeCounts(ResultStruct(
         RepairResult(FS, last.verify_all_hashes, << >>, FALSE, 1)))

\* The step is a fill or a repair.
FillOrRepairStep == CommandStep /\ last'.cmd \in {"fill", "repair"}

(***************************************************************************)
(* C12.  fill and repair never create, delete or retarget a user-facing    *)
(* symlink: every entry of the working tree, and so the target of every    *)
(* user-facing symlink, is the same after the command as before it.        *)
(***************************************************************************)
C12_SymlinkTargetsAreStable ==
    [][FillOrRepairStep => tree' = tree]_vars

\* fill or repair has just fetched the content of a user-facing symlink
\* that spells its ID in upper case, and the symlink still does.
C12_Witness ==
    /\ last.cmd \in {"fill", "repair"}
    /\ last.num_fetched >= 1
    /\ \E s \in UserLinks(FS) :
         /\ tree[s].target # SymlinkTarget(HsToBase32(IdAt(FS, s)))
         /\ Indexed(FS, s)

\* No two blobs of the store have the same ID.
AtMostOnePerId(store) ==
    \A m, n \in DOMAIN store :
      SizeHasherFinish(store[m].bytes) = SizeHasherFinish(store[n].bytes)
      => m = n

\* Every blob of .frz/content is what the index entry for its ID leads to.
EveryBlobIndexed(fs) ==
    \A n \in DOMAIN fs.content :
      LET symlink == SymlinkPath(HsToBase32(SizeHasherFinish(
                                               fs.content[n].bytes)))
      IN  /\ symlink \in DOMAIN fs.index
          /\ fs.index[symlink] = [dir |-> "content", name |-> n]

CannotBeAdded(s) ==
    \/ Obstructed(SlotDir(s))
    \/ GetTopDir(SlotDir(s)).topdir = "none"

\* The number of blobs in the two stores.
NumBlobs(fs) == Cardinality(DOMAIN fs.content) + Cardinality(DOMAIN fs.unused)

(***************************************************************************)
(* C16.  When add meets a regular file whose directory holds a             *)
(* non-symlink named .frz, or that has no repository root above it, the    *)
(* file is reported as an error, the command exits nonzero and the file    *)
(* stays a regular file with its bytes; the command creates one blob per   *)
(* file it did add and one index entry per new file, so none for the file  *)
(* that failed, and when no file was added the stores and the index are    *)
(* as before.                                                              *)
(***************************************************************************)
C16_FailedAddLeavesTheFile ==
    [][AddStep =>
         /\ \A s \in Paths :
              (tree[s].kind = "file" /\ last'.results[s] # "-"
                 /\ CannotBeAdded(s))
              => /\ last'.results[s] = "Error"
                 /\ last'.errors >= 1
                 /\ last'.rc # 0
                 /\ tree'[s] = tree[s]
         /\ NumBlobs(FSNext) = NumBlobs(FS) + last'.successful
                                 + last'.duplicates
         /\ Cardinality(DOMAIN index')
              = Cardinality(DOMAIN index) + last'.successful
         /\ (last'.successful + last'.duplicates = 0)
            => /\ content' = content
               /\ unused' = unused
               /\ index' = index
      ]_vars

\* add sub has just failed on sub/b, whose directory holds a regular file
\* named .frz, and added the file below it.
C16_Witness ==
    /\ last.cmd = "add"
    /\ last.rc = 1
    /\ last.results["b"] = "Error"
    /\ tree["b"] = RegularFile(B1)
    /\ frz["sub"].kind = "file"
    /\ last.results["c"] \in Added

\* AddFile gets as far as hashing the file at s.
CanBeAdded(fs, s) ==
    /\ fs.tree[s].kind = "file"
    /\ GetTopDir(SlotDir(s)).topdir = "root"
    /\ ~CreateHashdirSymlink(fs.frz, SlotDir(s),
                             GetTopDir(SlotDir(s)).level).error

\* A repair that found fs as it was when an add stopped has rolled the add
\* forward: nothing is still missing, every user-facing symlink leads
\* through the index to a read-only blob with its ID, and a further repair
\* changes nothing.
RolledForward(r, verify_all_hashes, o) ==
    /\ ~r.r3.error
    /\ r.r3.num_still_missing = 0
    /\ \A s \in UserLinks(r.r3.fs) :
         /\ Indexed(r.r3.fs, s)
         /\ LET path == r.r3.fs.index[SymlinkPath(HsToBase32(
                                                    IdAt(r.r3.fs, s)))]
            IN  /\ path.dir = "content"
                /\ path.name \in DOMAIN r.r3.fs.content
                /\ IsReadonly(r.r3.fs.content[path.name])
                /\ SizeHasherFinish(r.r3.fs.content[path.name].bytes)
                     = IdAt(r.r3.fs, s)
    /\ RepairedAgain(r, RepairResult(r.r3.fs, verify_all_hashes, << >>,
                                     o[1], o[2]))

\* Nothing is wrong with the repository: every blob is indexed under its
\* ID and read-only, and every user-facing symlink reads back the content
\* of its ID.
Undamaged(fs) ==
    /\ EveryBlobIndexed(fs)
    /\ AllReadonly(fs.content)
    /\ \A u \in UserLinks(fs) :
         /\ HasValue(ReadContents(fs, u))
         /\ SizeHasherFinish(Value(ReadContents(fs, u))) = IdAt(fs, u)

\* The states an add of the file at s can be interrupted in: after one of
\* its filesystem mutations and before the next.
InterruptedAdds(fs, s, pick) ==
    LET trace == AddFileTrace(fs, s, pick, FALSE)
    IN  {trace[k] : k \in 2..(Len(trace) - 1)}

(***************************************************************************)
(* C14.  If an add of a file is interrupted between two of its filesystem  *)
(* mutations, a repair without external locators rolls the add forward:    *)
(* it reports nothing still missing, every user-facing symlink's ID is     *)
(* indexed to a read-only blob with that ID, and a further repair changes  *)
(* nothing.                                                                *)
(***************************************************************************)
C14_RepairCompletesInterruptedAdd ==
    \A s \in Slots, o \in Oracles, verify_all_hashes \in BOOLEAN :
      (CanBeAdded(FS, s) /\ Undamaged(FS))
      => \A stopped \in InterruptedAdds(FS, s, o[2]) :
           RolledForward(RepairResult(stopped.fs, verify_all_hashes, << >>,
                                      o[1], o[2]),
                         verify_all_hashes, o)

(***************************************************************************)
(* C15.  Whenever add of a file finishes, with success or with an error    *)
(* raised by one of its filesystem mutations after the hash was computed,  *)
(* no file with the temporary name <path>.frz-<hash-name>-<id> is left in  *)
(* the working tree.                                                       *)
(***************************************************************************)
C15_NoTemporaryFileIsLeft ==
    \A s \in Slots, pick \in 1..NameFanout, cross_device \in BOOLEAN :
      CanBeAdded(FS, s) =>
        LET trace == AddFileTrace(FS, s, pick, cross_device)
        IN  \A k \in 1..Len(trace) : ~HasValue(trace[k].temp)

(***************************************************************************)
(* The codec on its own: HashAndSize::ToBase32 and HashAndSize::FromBase32 *)
(* applied to content IDs and texts drawn from bounded sets.  A size is    *)
(* kept by its bits, so that it ranges over the whole of std::int64_t.     *)
(* `last` holds the value given, the ID and the text at hand, and the      *)
(* conversions applied so far.                                             *)
(***************************************************************************)
\* The widest size: a std::int64_t has 63 bits beside its sign.
kSizeBits == 63
\* The longest text drawn character by character.
MaxTextLen == 6

\* Digest widths in bytes: the model's kNumBytes, and one whole group of
\* five bytes followed by two more, the layout of the program's 32 bytes.
CodecWidths == {kNumBytes, 7}
CodecBytes == {0, 165, 255}
CodecGroups == {<< 0, 0, 0, 0, 0 >>, << 255, 255, 255, 255, 255 >>,
                << 1, 35, 69, 103, 137 >>}
CodecDigests(num_bytes) ==
    IF num_bytes < 5 THEN [1..num_bytes -> CodecBytes]
    ELSE {g \o t : g \in CodecGroups, t \in [1..(num_bytes - 5) -> CodecBytes]}

Ones(w) == [i \in 1..w |-> 1]
\* Sizes 2^w - 1, 2^(w-1) and 2^(w-1) + 1 for every width w of a size.
CodecSizes ==
    {Ones(w) : w \in 0..kSizeBits}
        \cup {<< 1 >> \o Zeros(w - 1) : w \in 1..kSizeBits}
        \cup {<< 1 >> \o Zeros(w - 2) \o << 1 >> : w \in 2..kSizeBits}

\* Characters of the drawn texts: digits in either case, and one character
\* that is no base-32 digit.
CodecChars == {"0", "1", "z", "G", "i"}
ShortTexts == UNION {[1..n -> CodecChars] : n \in 0..MaxTextLen}

ToLower(text) ==
    [i \in 1..Len(text) |->
       IF Base32ToVal(text[i]) = NoVal THEN text[i]
       ELSE kBase32Digits[Base32ToVal(text[i]) + 1]]

\* Ways to spoil the text of an ID: another letter case, one digit more
\* in front of the size or at the end, one digit less, a foreign character.
Spoilt(num_bytes, t) ==
    LET hash_digits == (8 * num_bytes) \div 5
    IN  {ToUpper(t), t \o << "0" >>, t \o << "Z" >>,
         SubSeq(t, 1, Len(t) - 1),
         SubSeq(t, 1, hash_digits) \o << "0" >>
             \o SubSeq(t, hash_digits + 1, Len(t)),
         [t EXCEPT ![Len(t)] = "i"], [t EXCEPT ![1] = "-"]}
LongTexts(num_bytes) ==
    UNION {Spoilt(num_bytes, ToBase32Bits(hash, Ones(w))) :
             hash \in CodecDigests(num_bytes), w \in 0..kSizeBits}

CodecState(num_bytes, given_id, given_text) ==
    [cmd |-> "codec", num_bytes |-> num_bytes, given_id |-> given_id,
     given_text |-> given_text, id |-> given_id, text |-> given_text,
     ops |-> << >>]

CodecInit ==
    /\ tree = [s \in Paths |-> NoEntry]
    /\ frz = [d \in SubDirs |-> NoEntry]
    /\ content = EmptyFcn
    /\ unused = EmptyFcn
    /\ unusedDir = FALSE
    /\ index = EmptyFcn
    /\ loc = [l \in Locators |-> EmptyFcn]
    /\ env = 0
    /\ \E num_bytes \in CodecWidths :
          \/ \E hash \in CodecDigests(num_bytes), size \in CodecSizes :
                last = CodecState(num_bytes,
                                  Just([hash |-> hash, size |-> size]),
                                  Nothing)
          \/ \E t \in LongTexts(num_bytes)
                      \cup (IF num_bytes = kNumBytes THEN ShortTexts ELSE {}) :
                last = CodecState(num_bytes, Nothing, Just(t))

LastOp(ops) == IF ops = << >> THEN "none" ELSE ops[Len(ops)]

ToBase32Step ==
    /\ HasValue(last.id)
    /\ Len(last.ops) < 2
    /\ LastOp(last.ops) # "ToBase32"
    /\ last' = [last EXCEPT
                  !.text = Just(ToBase32Bits(last.id[1].hash,
                                             last.id[1].size)),
                  !.ops = Append(@, "ToBase32")]
    /\ UNCHANGED << tree, frz, content, unused, unusedDir, index, loc, env >>

FromBase32Step ==
    /\ HasValue(last.text)
    /\ Len(last.ops) < 2
    /\ LastOp(last.ops) # "FromBase32"
    /\ last' = [last EXCEPT
                  !.id = FromBase32Bits(last.num_bytes, last.text[1]),
                  !.ops = Append(@, "FromBase32")]
    /\ UNCHANGED << tree, frz, content, unused, unusedDir, index, loc, env >>

CodecNext == ToBase32Step \/ FromBase32Step

CodecSpec == CodecInit /\ [][CodecNext]_vars

\* C17: for every content ID h, whatever its digest and whatever its size
\* in 0..2^63-1, FromBase32(ToBase32(h)) has a value, and the value is h.
C17_DecodeOfEncodeIsIdentity ==
    last.ops = << "ToBase32", "FromBase32" >> =>
        HasValue(last.id) /\ last.id = last.given_id

\* The largest size, 2^63 - 1, behind the 7-byte digest came back.
C17_Witness ==
    /\ last.ops = << "ToBase32", "FromBase32" >>
    /\ last.num_bytes = 7
    /\ last.given_id[1].size = Ones(kSizeBits)
    /\ last.id = last.given_id
    /\ Len(last.text[1]) = (8 * 7 + kSizeBits + 1) \div 5

\* C18: for every text s of upper- and lower-case base-32 digits that
\* FromBase32 accepts, ToBase32(FromBase32(s)) is s in lower case; so the
\* accepted texts of one content ID differ in letter case at most.
C18_EncodeOfDecodeIsLowerCase ==
    last.ops = << "FromBase32", "ToBase32" >> =>
        last.text = Just(ToLower(last.given_text[1]))

\* A text with an upper-case digit was decoded and encoded again.
C18_Witness ==
    /\ last.ops = << "FromBase32", "ToBase32" >>
    /\ HasValue(last.id)
    /\ \E i \in 1..Len(last.given_text[1]) : last.given_text[1][i] = "G"
    /\ last.text # last.given_text
    /\ last.text = Just(ToLower(last.given_text[1]))

\* The characters of the base-32 alphabet, in either case.
Alphabet ==
    {kBase32Digits[i] : i \in 1..32} \cup {kBase32UpperDigits[i] : i \in 1..32}
HasForeignCharacter(s) == \E i \in 1..Len(s) : s[i] \notin Alphabet
TooFewDigits(num_bytes, s) == 5 * Len(s) < 8 * num_bytes
DigitIndex(c) ==
    CHOOSE v \in 0..31 : c \in {kBase32Digits[v + 1], kBase32UpperDigits[v + 1]}
RECURSIVE BitsOfDigits(_)
BitsOfDigits(s) ==
    IF s = << >> THEN << >>
    ELSE Bits(DigitIndex(Head(s)), 5) \o BitsOfDigits(Tail(s))
\* The bits of a text of digits that follow the digest.
SizePortion(num_bytes, s) ==
    LET b == BitsOfDigits(s) IN SubSeq(b, 8 * num_bytes + 1, Len(b))
LeadingZeros(b) == Len(b) - Len(StripZeros(b))
Overpadded(num_bytes, s) ==
    /\ ~HasForeignCharacter(s)
    /\ ~TooFewDigits(num_bytes, s)
    /\ LeadingZeros(SizePortion(num_bytes, s)) >= 5

\* C19: FromBase32 has no value for a text with a character that is no
\* base-32 digit, for a text with too few digits to fill the digest, and
\* for a text whose size portion starts with 5 or more zero bits.
C19_FromBase32Rejects ==
    (/\ last.ops = << "FromBase32" >>
     /\ HasValue(last.given_text)
     /\ \/ HasForeignCharacter(last.given_text[1])
        \/ TooFewDigits(last.num_bytes, last.given_text[1])
        \/ Overpadded(last.num_bytes, last.given_text[1]))
        => last.id = Nothing

\* A text of digits, long enough for the digest, was refused for the zero
\* bits in front of its size alone.
C19_Witness ==
    /\ last.ops = << "FromBase32" >>
    /\ HasValue(last.given_text)
    /\ Overpadded(last.num_bytes, last.given_text[1])
    /\ BitsToNat(StripZeros(SizePortion(last.num_bytes,
                                        last.given_text[1]))) > 0
    /\ last.id = Nothing

(***************************************************************************)
(* The hash index on its own: one RamHashIndex (in last.ram) and one       *)
(* DiskHashIndex (in index) are created empty and handed the same Insert   *)
(* and Scrub calls.                                                        *)
(***************************************************************************)
\* The longest content whose ID is inserted.
MaxIndexedLen == 1
IndexIds == {SizeHasherFinish(b) :
               b \in UNION {[1..n -> {1, 2}] : n \in 0..MaxIndexedLen}}
IndexPaths == {[dir |-> "content", name |-> BlobNames[i]] : i \in 1..2}
IsGoodCallbacks ==
    {[kind |-> k, hs |-> Nothing, name |-> ""] : k \in {"all", "none"}}
        \cup {[kind |-> k, hs |-> hs, name |-> ""] :
                k \in {"id", "not-id"}, hs \in IndexIds}
        \cup {[kind |-> "name", hs |-> Nothing, name |-> p.name] :
                p \in IndexPaths}

IndexInit ==
    /\ tree = [s \in Paths |-> NoEntry]
    /\ frz = [d \in SubDirs |-> NoEntry]
    /\ content = EmptyFcn
    /\ unused = EmptyFcn
    /\ unusedDir = FALSE
    /\ index = EmptyFcn
    /\ loc = [l \in Locators |-> EmptyFcn]
    /\ env = 0
    /\ last = [cmd |-> "index", ram |-> EmptyFcn, op |-> "none",
               hs |-> Nothing, path |-> Nothing,
               ram_inserted |-> FALSE, disk_inserted |-> FALSE]

HashIndexInsert(hs, path) ==
    /\ \E r \in {RamInsert(last.ram, hs, path)},
          d \in {IndexInsert(index, hs, path)} :
          /\ index' = d.index
          /\ last' = [cmd |-> "index", ram |-> r.index, op |-> "Insert",
                      hs |-> Just(hs), path |-> Just(path),
                      ram_inserted |-> r.inserted,
                      disk_inserted |-> d.inserted]
    /\ UNCHANGED << tree, frz, content, unused, unusedDir, loc, env >>

HashIndexScrub(g) ==
    /\ index' = DiskScrub(index, g)
    /\ last' = [cmd |-> "index", ram |-> RamScrub(last.ram, g),
                op |-> "Scrub", hs |-> Nothing, path |-> Nothing,
                ram_inserted |-> FALSE, disk_inserted |-> FALSE]
    /\ UNCHANGED << tree, frz, content, unused, unusedDir, loc, env >>

IndexNext ==
    \/ \E hs \in IndexIds, path \in IndexPaths : HashIndexInsert(hs, path)
    \/ \E g \in IsGoodCallbacks : HashIndexScrub(g)

IndexSpec == IndexInit /\ [][IndexNext]_vars

\* The entries of the on-disk index whose names spell the ID hs.
DiskEntriesOf(idx, hs) ==
    {k \in DOMAIN idx : ScrubbedName(k) = Just(hs)}
\* The path an index binds hs to, if any.
DiskBinding(idx, hs) == {idx[k] : k \in DiskEntriesOf(idx, hs)}
RamBinding(index_, hs) == IF hs \in DOMAIN index_ THEN {index_[hs]} ELSE {}

\* C20: for the in-memory and the on-disk index alike, Insert(id, path)
\* returns true exactly if Contains(id) was false just before; after an
\* Insert Contains(id) is true; an Insert that returns false leaves the
\* binding of id as it was; and after any Insert or Scrub no ID has more
\* than one entry.
C20_HashIndexContract ==
    [][/\ last'.op = "Insert" =>
            LET hs == last'.hs[1]
            IN  /\ last'.ram_inserted = ~RamContains(last.ram, hs)
                /\ last'.disk_inserted = ~IndexContains(index, hs)
                /\ RamContains(last'.ram, hs)
                /\ IndexContains(index', hs)
                /\ ~last'.ram_inserted =>
                       RamBinding(last'.ram, hs) = RamBinding(last.ram, hs)
                /\ ~last'.disk_inserted =>
                       DiskBinding(index', hs) = DiskBinding(index, hs)
                /\ last'.ram_inserted =>
                       RamBinding(last'.ram, hs) = {last'.path[1]}
                /\ last'.disk_inserted =>
                       DiskBinding(index', hs) = {last'.path[1]}
       /\ \A hs \in IndexIds :
             /\ Cardinality(DiskEntriesOf(index', hs)) <= 1
             /\ Cardinality(RamBinding(last'.ram, hs)) <= 1
       /\ \A k \in DOMAIN index' : HasValue(ScrubbedName(k))
      ]_vars

\* An Insert of an ID that was bound returned false in both indexes and
\* left the other path in place, beside the entry of another ID.
C20_Witness ==
    /\ last.cmd = "index"
    /\ last.op = "Insert"
    /\ ~last.ram_inserted
    /\ ~last.disk_inserted
    /\ RamBinding(last.ram, last.hs[1]) # {last.path[1]}
    /\ DiskBinding(index, last.hs[1]) = RamBinding(last.ram, last.hs[1])
    /\ Cardinality(DOMAIN index) = 2

(***************************************************************************)
(* Scrub over an index directory that also holds what the program did not  *)
(* put there: names that spell no ID, an ID spelt in upper case, and a     *)
(* regular file.  ScrubStep records the indexes it was called on.          *)
(***************************************************************************)
ForeignEntries ==
    LET id == ToBase32(SizeHasherFinish(B1))
        other == ToBase32(SizeHasherFinish(<< 1, 1, 1 >>))
        target == [dir |-> "content", name |-> BlobNames[1]]
    IN  { \* a directory name of one digit
          [symlink |-> << << "0" >>, << "0", "0" >>, << "0" >> >>,
           target |-> target],
          \* a directory name that is no base-32 number
          [symlink |-> << << "0", "i" >>, << "0", "0" >>, << "0" >> >>,
           target |-> target],
          \* a file name with one digit too many for its size
          [symlink |-> << << "0", "0" >>, << "0", "0" >>, << "0", "0" >> >>,
           target |-> target],
          \* a file name with a character that is no digit
          [symlink |-> << Substr(id, 0, 2), Substr(id, 2, 2), << "-" >> >>,
           target |-> target],
          \* an ID spelt in upper case
          [symlink |-> SymlinkPath(ToUpper(id)), target |-> target],
          \* a regular file named like an ID
          [symlink |-> SymlinkPath(other), target |-> NotASymlink] }

EnvIndexEntry(e) ==
    /\ env < MaxEnv
    /\ e.symlink \notin DOMAIN index
    /\ index' = Put(index, e.symlink, e.target)
    /\ env' = env + 1
    /\ last' = [last EXCEPT !.op = "none"]
    /\ UNCHANGED << tree, frz, content, unused, unusedDir, loc >>

ScrubStep(g) ==
    /\ index' = DiskScrub(index, g)
    /\ last' = [cmd |-> "index", ram |-> RamScrub(last.ram, g),
                op |-> "Scrub", hs |-> Nothing, path |-> Nothing,
                ram_inserted |-> FALSE, disk_inserted |-> FALSE,
                is_good |-> g, index_before |-> index,
                ram_before |-> last.ram]
    /\ UNCHANGED << tree, frz, content, unused, unusedDir, loc, env >>

ScrubNext ==
    \/ \E hs \in IndexIds, path \in IndexPaths : HashIndexInsert(hs, path)
    \/ \E g \in IsGoodCallbacks : ScrubStep(g)
    \/ \E e \in ForeignEntries : EnvIndexEntry(e)

ScrubSpec == IndexInit /\ [][ScrubNext]_vars

\* The text an index entry's name spells, and whether it is the text of
\* an ID: two directory names of two digits, and digits that fill the
\* digest and spell the size without a spare digit.
EntryText(k) == k[1] \o k[2] \o k[3]
SpellsAnId(k) ==
    /\ Len(k[1]) = 2
    /\ Len(k[2]) = 2
    /\ ~HasForeignCharacter(EntryText(k))
    /\ ~TooFewDigits(kNumBytes, EntryText(k))
    /\ ~Overpadded(kNumBytes, EntryText(k))
\* The ID a text of digits spells.
IdOfText(t) ==
    [hash |-> [i \in 1..kNumBytes |->
                 BitsToNat(SubSeq(BitsOfDigits(t), 8 * i - 7, 8 * i))],
     size |-> BitsToNat(SizePortion(kNumBytes, t))]
SurvivesScrub(idx, k, g) ==
    /\ idx[k] # NotASymlink
    /\ SpellsAnId(k)
    /\ IsGood(g, IdOfText(EntryText(k)), idx[k])

\* C21: Scrub(is_good) removes the entries that are malformed and those for
\* which is_good returns false, and no other; what stays keeps its binding;
\* a second Scrub with the same is_good removes nothing.
C21_ScrubRemovesExactlyTheBad ==
    (last.cmd = "index" /\ last.op = "Scrub") =>
        /\ DOMAIN index = {k \in DOMAIN last.index_before :
                             SurvivesScrub(last.index_before, k, last.is_good)}
        /\ \A k \in DOMAIN index : index[k] = last.index_before[k]
        /\ DOMAIN last.ram = {hs \in DOMAIN last.ram_before :
                                IsGood(last.is_good, hs, last.ram_before[hs])}
        /\ \A hs \in DOMAIN last.ram : last.ram[hs] = last.ram_before[hs]
        /\ DiskScrub(index, last.is_good) = index
        /\ RamScrub(last.ram, last.is_good) = last.ram

\* A Scrub removed a malformed entry and an entry its callback found bad,
\* and kept an entry.
C21_Witness ==
    /\ last.cmd = "index"
    /\ last.op = "Scrub"
    /\ \E k \in DOMAIN last.index_before \ DOMAIN index : ~SpellsAnId(k)
    /\ \E k \in DOMAIN last.index_before \ DOMAIN index :
          /\ SpellsAnId(k)
          /\ last.index_before[k] # NotASymlink
    /\ DOMAIN index # {}
    /\ DOMAIN last.ram # {}
    /\ DOMAIN last.ram # DOMAIN last.ram_before

(***************************************************************************)
(* stream.cc: the streamers.  One call of MultiThreadedStreamer::Stream    *)
(* or ::ForkedStream, its threads taking one step at a time: a step is a   *)
(* critical section of a StreamBufferQueue or of a Latch, or the call of   *)
(* a write_fun or read_fun.  `last` holds the call's whole state.          *)
(***************************************************************************)
\* The longest source, and the most buffers a queue may allocate.
MaxSourceLen == 3
MaxBuffers == 2

\* A StreamBuffer after FinishWrite: its valid bytes and its end flag.
StreamBuffer(bytes, end) == [bytes |-> bytes, end |-> end]
NoBuffer == StreamBuffer(<< >>, FALSE)

\* A StreamBufferQueue: the filled deque (front first), the number of
\* buffers on the unused stack, and buffer_allocation_budget_.
StreamBufferQueue(max_buffers, allocated) ==
    [filled |-> << >>, unused |-> allocated, budget |-> max_buffers - allocated,
     max_buffers |-> max_buffers]

\* Enqueue up to write_fun: is a buffer to be had, and the queue once it is
\* taken.
CanTakeBuffer(q) == q.budget >= 1 \/ q.unused >= 1
\* An Enqueue that allocates a buffer whatever the budget is.
TakeBufferFresh(q) == [q EXCEPT !.budget = @ - 1]
TakeBuffer(q) ==
    IF q.budget >= 1 /\ q.unused = 0 THEN [q EXCEPT !.budget = @ - 1]
    ELSE [q EXCEPT !.unused = @ - 1]
\* Enqueue after write_fun: filled_.push_back.
PushFilled(q, buf) == [q EXCEPT !.filled = Append(@, buf)]

\* A Dequeue that takes the buffer at the front of filled_.
DequeueFront(q) ==
    [buf |-> q.filled[1], q |-> [q EXCEPT !.filled = Tail(@)]]
\* Dequeue up to read_fun: filled_.back() and filled_.pop_back().
Dequeue(q) ==
    [buf |-> q.filled[Len(q.filled)],
     q |-> [q EXCEPT !.filled = SubSeq(@, 1, Len(@) - 1)]]
\* Dequeue after read_fun: unused_.push_back.
ReturnBuffer(q) == [q EXCEPT !.unused = @ + 1]

\* FillBufferFromStream on a source at position pos into a buffer of
\* capacity bytes_per_buffer: [num_bytes, end] and the bytes written.
FillBufferFromStream(source, pos, bytes_per_buffer) ==
    LET rest == Len(source) - pos
        num_bytes == IF rest < bytes_per_buffer THEN rest ELSE bytes_per_buffer
    IN  [num_bytes |-> num_bytes, end |-> rest < bytes_per_buffer,
         bytes |-> SubSeq(source, pos + 1, pos + num_bytes)]

\* SingleThreadedStreamer::Stream: what the sink has once the source ends.
RECURSIVE SingleThreadedStream(_, _, _)
SingleThreadedStream(source, pos, buffer_size) ==
    IF pos >= Len(source) THEN << >>
    ELSE LET n == IF Len(source) - pos < buffer_size
                  THEN Len(source) - pos ELSE buffer_size
         IN  SubSeq(source, pos + 1, pos + n)
                 \o SingleThreadedStream(source, pos + n, buffer_size)

\* Latch::Wait that does not wait.
LatchWaitNever(unlocked_) == TRUE
\* Latch::Wait returns once unlocked_ holds.
LatchWait(unlocked_) == unlocked_

\* absl::MutexLock on callback_mutex that never finds the mutex held.
MutexLockAlways(callback_mutex) == TRUE
\* absl::MutexLock on callback_mutex gets the mutex once no thread holds it.
MutexLock(callback_mutex) == callback_mutex = "free"

Sinks == {"primary", "secondary"}

StreamState(mode, n, bytes_per_buffer, pq, sq, decision) ==
    [cmd |-> "stream", mode |-> mode, source |-> [i \in 1..n |-> i],
     bytes_per_buffer |-> bytes_per_buffer, decision |-> decision,
     pos |-> 0,
     q |-> [primary |-> pq, secondary |-> sq],
     src |-> [pc |-> "take", buf |-> NoBuffer, end |-> FALSE, start |-> 0,
              restart |-> Nothing, phase |-> "primary"],
     snk |-> [k \in Sinks |->
                [pc |-> IF mode = "Stream" /\ k = "secondary" THEN "unused"
                        ELSE "check",
                 buf |-> NoBuffer, end |-> FALSE]],
     out |-> [k \in Sinks |-> << >>],
     progress |-> [k \in Sinks |-> 0],
     latch |-> [k \in Sinks |-> FALSE],
     cancel |-> FALSE,
     callback_mutex |-> "free",
     calls |-> [primary_done |-> 0, SetPosition |-> 0]]

StreamInit ==
    /\ tree = [s \in Paths |-> NoEntry]
    /\ frz = [d \in SubDirs |-> NoEntry]
    /\ content = EmptyFcn
    /\ unused = EmptyFcn
    /\ unusedDir = FALSE
    /\ index = EmptyFcn
    /\ loc = [l \in Locators |-> EmptyFcn]
    /\ env = 0
    /\ \E n \in 0..MaxSourceLen, bytes_per_buffer \in 1..2,
          num_buffers \in 1..MaxBuffers :
         \E allocated \in 0..num_buffers :
          \/ last = StreamState("Stream", n, bytes_per_buffer,
                                StreamBufferQueue(num_buffers, allocated),
                                StreamBufferQueue(0, 0), "none")
          \/ \E num_buffers_secondary \in 0..MaxBuffers,
                decision \in {"kFinish", "kAbandon"} :
                last = StreamState("ForkedStream", n, bytes_per_buffer,
                                   StreamBufferQueue(num_buffers, allocated),
                                   StreamBufferQueue(num_buffers_secondary, 0),
                                   decision)

StreamRest == << tree, frz, content, unused, unusedDir, index, loc, env >>

\* The queue the source thread is feeding: the primary queue, or the
\* secondary queue once it finishes the secondary stream.
SourceQueue(st) == IF st.src.phase = "primary" THEN "primary" ELSE "secondary"

\* One step of source_work (of Stream and of ForkedStream); the state is
\* returned as it is where the thread is blocked or has ended.
SourceWork(st) ==
    LET pc == st.src.pc
        k == SourceQueue(st)
        forked == st.mode = "ForkedStream"
    IN  CASE pc = "take" ->
               \* args.source.GetPosition(); Enqueue up to write_fun
               IF CanTakeBuffer(st.q[k])
               THEN [st EXCEPT !.q[k] = TakeBuffer(@), !.src.start = st.pos,
                               !.src.pc = "fill"]
               ELSE st
          [] pc = "fill" ->
               LET result == FillBufferFromStream(st.source, st.pos,
                                                  st.bytes_per_buffer)
               IN  [st EXCEPT !.pos = @ + result.num_bytes,
                              !.src.buf = StreamBuffer(result.bytes, result.end),
                              !.src.end = result.end,
                              !.src.pc = IF /\ forked
                                            /\ st.src.phase = "primary"
                                            /\ ~HasValue(st.src.restart)
                                         THEN "take2" ELSE "push"]
          [] pc = "take2" ->
               \* secondary_queue_.NonblockingEnqueue up to write_fun
               IF CanTakeBuffer(st.q.secondary)
               THEN [st EXCEPT !.q.secondary = TakeBuffer(@),
                               !.src.pc = "push2"]
               ELSE [st EXCEPT !.src.restart = Just(st.src.start),
                               !.src.pc = "push"]
          [] pc = "push2" ->
               [st EXCEPT !.q.secondary = PushFilled(@, st.src.buf),
                          !.src.pc = "push"]
          [] pc = "push" ->
               [st EXCEPT !.q[k] = PushFilled(@, st.src.buf),
                          !.src.pc = IF ~st.src.end THEN "take"
                                     ELSE IF ~forked THEN "done"
                                     ELSE IF k = "primary" THEN "wait1"
                                     ELSE "wait2"]
          [] pc = "wait1" ->
               IF LatchWait(st.latch.primary)
               THEN [st EXCEPT !.src.pc = "lock"] ELSE st
          [] pc = "lock" ->
               \* absl::MutexLock ml(&callback_mutex)
               IF MutexLock(st.callback_mutex)
               THEN [st EXCEPT !.callback_mutex = "source",
                               !.src.pc = "primary_done"]
               ELSE st
          [] pc = "primary_done" ->
               \* args.primary_done() returns; the lock is released
               [st EXCEPT !.calls.primary_done = @ + 1,
                          !.callback_mutex = "free",
                          !.src.pc =
                   IF st.decision = "kAbandon" THEN "cancel"
                   ELSE IF HasValue(st.src.restart) THEN "seek"
                   ELSE "wait2"]
          [] pc = "cancel" ->
               [st EXCEPT !.cancel = TRUE,
                          !.src.pc = IF HasValue(st.src.restart)
                                     THEN "take_end" ELSE "wait2"]
          [] pc = "take_end" ->
               IF CanTakeBuffer(st.q.secondary)
               THEN [st EXCEPT !.q.secondary = TakeBuffer(@),
                               !.src.pc = "push_end"]
               ELSE st
          [] pc = "push_end" ->
               [st EXCEPT !.q.secondary =
                              PushFilled(@, StreamBuffer(<< >>, TRUE)),
                          !.src.pc = "wait2"]
          [] pc = "seek" ->
               \* args.source.SetPosition(*secondary_restart_position)
               [st EXCEPT !.pos = st.src.restart[1], !.src.end = FALSE,
                          !.calls.SetPosition = @ + 1,
                          !.src.phase = "secondary", !.src.pc = "take"]
          [] pc = "wait2" ->
               IF LatchWait(st.latch.secondary)
               THEN [st EXCEPT !.src.pc = "done"] ELSE st
          [] OTHER -> st

\* One step of sink_work, primary_sink_work (k = "primary") or
\* secondary_sink_work (k = "secondary").
SinkWork(st, k) ==
    LET pc == st.snk[k].pc
    IN  CASE pc = "check" ->
               IF st.snk[k].end \/ (k = "secondary" /\ st.cancel)
               THEN [st EXCEPT !.snk[k].pc = IF st.mode = "Stream"
                                              THEN "done" ELSE "countdown"]
               ELSE [st EXCEPT !.snk[k].pc = "pop"]
          [] pc = "pop" ->
               IF st.q[k].filled # << >>
               THEN LET d == Dequeue(st.q[k])
                    IN  [st EXCEPT !.q[k] = d.q, !.snk[k].buf = d.buf,
                                   !.snk[k].pc = "read"]
               ELSE st
          [] pc = "read" ->
               \* sink.AddBytes(buf.Read()); end = buf.End(); in Stream
               \* also progress(...), which no mutex guards there
               IF st.mode = "Stream"
               THEN [st EXCEPT !.out[k] = @ \o st.snk[k].buf.bytes,
                               !.progress[k] = @ + 1,
                               !.snk[k].end = st.snk[k].buf.end,
                               !.snk[k].pc = "return"]
               ELSE [st EXCEPT !.out[k] = @ \o st.snk[k].buf.bytes,
                               !.snk[k].end = st.snk[k].buf.end,
                               !.snk[k].pc = "lock"]
          [] pc = "lock" ->
               \* absl::MutexLock ml(&callback_mutex)
               IF MutexLock(st.callback_mutex)
               THEN [st EXCEPT !.callback_mutex = k,
                               !.snk[k].pc = "progress"]
               ELSE st
          [] pc = "progress" ->
               \* args.primary_progress / secondary_progress returns; the
               \* lock is released
               [st EXCEPT !.progress[k] = @ + 1,
                          !.callback_mutex = "free",
                          !.snk[k].pc = "return"]
          [] pc = "return" ->
               [st EXCEPT !.q[k] = ReturnBuffer(@), !.snk[k].pc = "check"]
          [] pc = "countdown" ->
               [st EXCEPT !.latch[k] = TRUE, !.snk[k].pc = "done"]
          [] OTHER -> st

SourceStep ==
    /\ SourceWork(last) # last
    /\ last' = SourceWork(last)
    /\ UNCHANGED StreamRest

SinkStep(k) ==
    /\ SinkWork(last, k) # last
    /\ last' = SinkWork(last, k)
    /\ UNCHANGED StreamRest

StreamNext == SourceStep \/ \E k \in Sinks : SinkStep(k)

StreamSpec == StreamInit /\ [][StreamNext]_vars

\* Has the call returned?  Stream returns from sink_work, ForkedStream from
\* source_work.
Returned(st) ==
    IF st.mode = "Stream" THEN st.snk.primary.pc = "done"
    ELSE st.src.pc = "done"

\* C22: when MultiThreadedStreamer::Stream returns, the chunks handed to
\* the sink's AddBytes, put end to end, are the source's bytes in the
\* source's order, as SingleThreadedStreamer delivers them, for every
\* number of buffers and every interleaving of the two threads.
C22_StreamDeliversTheSource ==
    (last.mode = "Stream" /\ Returned(last)) =>
        /\ last.out.primary = last.source
        /\ last.out.primary
               = SingleThreadedStream(last.source, 0, last.bytes_per_buffer)

\* C23: when ForkedStream returns, the primary sink has the source's bytes
\* in order, and after kFinish so has the secondary sink, whether or not
\* the secondary stream had to be restarted.
C23_ForkedStreamDeliversTheSource ==
    (last.mode = "ForkedStream" /\ Returned(last)) =>
        /\ last.out.primary = last.source
        /\ last.decision = "kFinish" => last.out.secondary = last.source

\* C24: ForkedStream returns only after both sink loops have ended, so
\* that no AddBytes and no progress callback comes after its return.
C24_ForkedStreamReturnsLast ==
    (last.mode = "ForkedStream" /\ Returned(last)) =>
        \A k \in Sinks :
           /\ last.snk[k].pc = "done"
           /\ last.latch[k]
           /\ SinkWork(last, k) = last

\* ForkedStream returned after the secondary stream was restarted and
\* finished, and after it was cancelled.
C24_Witness ==
    /\ last.mode = "ForkedStream"
    /\ Returned(last)
    /\ HasValue(last.src.restart)
    /\ last.progress.primary >= 2
    /\ last.progress.secondary >= 1
    /\ \A k \in Sinks : last.snk[k].pc = "done"

(***************************************************************************)
(* The content store on its own: DiskContentStore::CopyInsert and          *)
(* ::MoveInsert applied to the files of a directory (loc.L1), which lies   *)
(* on the store's filesystem or on another one.                            *)
(***************************************************************************)
StoreInit ==
    /\ tree = [s \in Paths |-> NoEntry]
    /\ frz = [d \in SubDirs |-> NoEntry]
    /\ unused = EmptyFcn
    /\ unusedDir = FALSE
    /\ index = EmptyFcn
    /\ env = 0
    /\ \E held \in SUBSET {BlobNames[1], BlobNames[2]} :
          content = [n \in held |-> [bytes |-> B2, writable |-> FALSE]]
    /\ \E files \in SUBSET {"f1", "f2", "f3"} :
          loc = [l \in Locators |->
                   IF l = "L1"
                   THEN [f \in files |-> CASE f = "f1" -> B1
                                            [] f = "f2" -> B2
                                            [] OTHER -> << >>]
                   ELSE EmptyFcn]
    /\ last = [cmd |-> "store", op |-> "none", source |-> "",
               cross_device |-> FALSE, path |-> ""]

StoreRest == << tree, frz, unused, unusedDir, index, env >>

\* content_store_->MoveInsert(source) on the regular file `source` of L1.
StoreMoveInsert(source, cross_device, pick) ==
    /\ source \in DOMAIN loc["L1"]
    /\ FreeNames(content) # << >>
    /\ \E mi \in {MoveInsert(content,
                             [bytes |-> loc["L1"][source], writable |-> TRUE],
                             cross_device, pick)} :
          /\ content' = mi.store
          /\ loc' = IF mi.moved THEN [loc EXCEPT !["L1"] = Drop(@, source)]
                    ELSE loc
          /\ last' = [cmd |-> "store", op |-> "MoveInsert",
                      source |-> source, cross_device |-> cross_device,
                      path |-> mi.path]
    /\ UNCHANGED StoreRest

\* content_store_->CopyInsert(source).
StoreCopyInsert(source, pick) ==
    /\ source \in DOMAIN loc["L1"]
    /\ FreeNames(content) # << >>
    /\ \E ci \in {CopyInsert(content,
                             [bytes |-> loc["L1"][source], writable |-> TRUE],
                             pick)} :
          /\ content' = ci.store
          /\ last' = [cmd |-> "store", op |-> "CopyInsert",
                      source |-> source, cross_device |-> FALSE,
                      path |-> ci.path]
    /\ UNCHANGED << loc, tree, frz, unused, unusedDir, index, env >>

StoreNext ==
    \/ \E source \in {"f1", "f2", "f3"}, cross_device \in BOOLEAN,
          pick \in 1..2 : StoreMoveInsert(source, cross_device, pick)
    \/ \E source \in {"f1", "f2", "f3"}, pick \in 1..2 :
          StoreCopyInsert(source, pick)

StoreSpec == StoreInit /\ [][StoreNext]_vars

ExpectedTarget(levels) ==
    [i \in 1..(levels + 1) |-> IF i <= levels THEN DotDot ELSE FrzName]
MaxLevels == 2

\* C26: CreateHashdirSymlink(dir, levels) with levels >= 1 changes nothing
\* if .frz in dir is a symlink with the expected target, replaces a symlink
\* with another target, creates the symlink if there is none, and fails
\* without touching the entry if it is something else; with levels = 0 it
\* changes nothing; a second call leaves what the first call left.
C26_CreateHashdirSymlinkCases ==
    /\ \A dir \in SubDirs, levels \in 1..MaxLevels :
          LET r == CreateHashdirSymlink(frz, dir, levels)
              wanted == Symlink(ExpectedTarget(levels))
              again == CreateHashdirSymlink(r.frz, dir, levels)
          IN  /\ \A d \in SubDirs \ {dir} : r.frz[d] = frz[d]
              /\ frz[dir] = wanted => (r.frz = frz /\ ~r.error)
              /\ (frz[dir].kind = "symlink" /\ frz[dir] # wanted) =>
                     (r.frz[dir] = wanted /\ ~r.error)
              /\ frz[dir].kind = "none" => (r.frz[dir] = wanted /\ ~r.error)
              /\ frz[dir].kind \notin {"symlink", "none"} =>
                     (r.frz = frz /\ r.error)
              /\ again.frz = r.frz
              /\ again.error = r.error
    /\ \A dir \in {"root", "nested"} :
          LET r == CreateHashdirSymlink(frz, dir, 0)
          IN  r.frz = frz /\ ~r.error

\* A command has run in a tree where sub/dir/.frz is a symlink with the
\* target that fits one level, and CreateHashdirSymlink replaces it.
C26_Witness ==
    /\ last # NoCommand
    /\ frz["subdir"] = Symlink(ExpectedTarget(1))
    /\ CreateHashdirSymlink(frz, "subdir", 2).frz["subdir"]
           = Symlink(<< DotDot, DotDot, FrzName >>)
    /\ frz["sub"] = Symlink(<< DotDot, FrzName >>)

(***************************************************************************)
(* Repair Phase A one index entry at a time, with the calls of the is_good *)
(* callback allowed to fail.  CanonicalPath is lexical; directory_entry,   *)
(* is_regular_file and file_size are std::filesystem calls and throw       *)
(* std::filesystem::filesystem_error; CreateFileSource and the reads throw *)
(* frz::Error.  The callback's handler is catch (const Error&).            *)
(***************************************************************************)
VerifyFaults == {"none", "stat", "size", "open", "read"}

\* The most entries the index directory holds.
MaxIndexEntries == 2

\* What the failing call throws.
ThrownBy(fault) ==
    CASE fault \in {"stat", "size"} -> "filesystem_error"
      [] fault \in {"open", "read"} -> "Error"
      [] OTHER                      -> "none"

\* The callback's handler: does catch (const Error&) take this exception?
CatchesError(thrown) == thrown = "Error"

\* The is_good callback of CheckIndexSymlinks when the call named by fault
\* fails, if the callback gets that far:
\* [good, counted_bad, raised, escaped].
IndexSymlinkIsGoodOrThrows(fs, hs, content_path, verify_all_hashes, fault) ==
    LET canonical_content_path == CanonicalPath(content_path)
        name == Value(canonical_content_path)
        bad == [good |-> FALSE, counted_bad |-> TRUE, raised |-> "none",
                escaped |-> FALSE]
        throw == IF CatchesError(ThrownBy(fault))
                 THEN [bad EXCEPT !.raised = ThrownBy(fault)]
                 ELSE [good |-> FALSE, counted_bad |-> FALSE,
                       raised |-> ThrownBy(fault), escaped |-> TRUE]
    IN  IF ~HasValue(canonical_content_path) THEN bad
        ELSE IF fault = "stat" THEN throw
        ELSE IF name \notin DOMAIN fs.content THEN bad
        ELSE IF fault = "size" THEN throw
        ELSE IF Len(fs.content[name].bytes) # hs.size THEN bad
        ELSE IF fault \in {"open", "read"} THEN throw
        ELSE IF IndexSymlinkIsGood(fs, hs, content_path, verify_all_hashes)
        THEN [good |-> TRUE, counted_bad |-> FALSE, raised |-> "none",
              escaped |-> FALSE]
        ELSE bad

PhaseAIdle ==
    [cmd |-> "phaseA", pc |-> "idle", verify_all_hashes |-> FALSE,
     todo |-> {}, to_remove |-> {}, visited |-> {},
     num_good_index_symlinks |-> 0, num_bad_index_symlinks |-> 0,
     indexed_content_files |-> {}]

PhaseAInit ==
    /\ tree = [s \in Paths |-> NoEntry]
    /\ frz = [d \in SubDirs |-> NoEntry]
    /\ content \in {[n \in names |-> [bytes |-> B1, writable |-> FALSE]] :
                      names \in SUBSET {BlobNames[1], BlobNames[2]}}
    /\ unused = EmptyFcn
    /\ unusedDir = FALSE
    /\ index = EmptyFcn
    /\ loc = [l \in Locators |-> EmptyFcn]
    /\ env = 0
    /\ last = PhaseAIdle

\* Someone puts a symlink named like an ID into the index.
PhaseAIndexEntry(hs, path) ==
    /\ Cardinality(DOMAIN index) < MaxIndexEntries
    /\ last.pc # "scan"
    /\ \E d \in {IndexInsert(index, hs, path)} :
          /\ d.inserted
          /\ index' = d.index
    /\ last' = PhaseAIdle
    /\ UNCHANGED << tree, frz, content, unused, unusedDir, loc, env >>

\* CheckIndexSymlinks calls Scrub, which starts iterating the directory.
PhaseABegin(verify_all_hashes) ==
    /\ last.pc # "scan"
    /\ last' = [PhaseAIdle EXCEPT !.pc = "scan",
                                  !.verify_all_hashes = verify_all_hashes,
                                  !.todo = DOMAIN index]
    /\ UNCHANGED << tree, frz, content, unused, unusedDir, index, loc, env >>

\* One iteration of ScrubDir's loop, in the directory's iteration order.
\* An exception that leaves the callback leaves ScrubDir before it removes
\* anything, and Scrub throws it on as an Error.
PhaseAVisit(symlink, fault) ==
    /\ last.pc = "scan"
    /\ symlink \in last.todo
    /\ \E r \in {IF IsSymlinkEntry(index[symlink])
                    /\ HasValue(ScrubbedName(symlink))
                 THEN IndexSymlinkIsGoodOrThrows(
                          FS, Value(ScrubbedName(symlink)), index[symlink],
                          last.verify_all_hashes, fault)
                 ELSE [good |-> FALSE, counted_bad |-> FALSE,
                       raised |-> "none", escaped |-> FALSE]} :
          last' = [last EXCEPT
                     !.pc = IF r.escaped THEN "thrown" ELSE "scan",
                     !.todo = @ \ {symlink},
                     !.to_remove = IF r.good \/ r.escaped THEN @
                                   ELSE @ \cup {symlink},
                     !.visited = @ \cup {[symlink |-> symlink,
                                          raised |-> r.raised,
                                          counted_bad |-> r.counted_bad]},
                     !.num_good_index_symlinks =
                         IF r.good THEN @ + 1 ELSE @,
                     !.num_bad_index_symlinks =
                         IF r.counted_bad THEN @ + 1 ELSE @,
                     !.indexed_content_files =
                         IF r.good THEN @ \cup {index[symlink].name} ELSE @]
    /\ UNCHANGED << tree, frz, content, unused, unusedDir, index, loc, env >>

\* The loop is over: ScrubDir removes what it collected.
PhaseAEnd ==
    /\ last.pc = "scan"
    /\ last.todo = {}
    /\ index' = [k \in DOMAIN index \ last.to_remove |-> index[k]]
    /\ last' = [last EXCEPT !.pc = "done"]
    /\ UNCHANGED << tree, frz, content, unused, unusedDir, loc, env >>

PhaseANext ==
    \/ \E hs \in IndexIds,
          path \in IndexPaths \cup {[dir |-> "elsewhere",
                                     name |-> BlobNames[1]]} :
           PhaseAIndexEntry(hs, path)
    \/ \E verify_all_hashes \in BOOLEAN : PhaseABegin(verify_all_hashes)
    \/ \E hs \in IndexIds, fault \in VerifyFaults :
           PhaseAVisit(SymlinkPath(HsToBase32(hs)), fault)
    \/ PhaseAEnd

PhaseASpec == PhaseAInit /\ [][PhaseANext]_vars

\* C27: no error raised while verifying an index entry in Phase A leaves
\* Phase A: whatever its kind, the entry it was raised for is counted in
\* num_bad_index_symlinks, Phase A goes on, and when it ends the entry is
\* gone from the index.
C27_PhaseAErrorsNeverPropagate ==
    last.cmd = "phaseA" =>
        /\ last.pc # "thrown"
        /\ \A v \in last.visited :
              v.raised # "none" =>
                  /\ v.counted_bad
                  /\ last.pc = "done" => v.symlink \notin DOMAIN index
        /\ last.num_bad_index_symlinks =
               Cardinality({v \in last.visited : v.counted_bad})

(***************************************************************************)
(* Repair Phase B, on every file system the commands and the environment   *)
(* lead to: r1 is what Phase A returned and r2 what Phase B made of it.    *)
(***************************************************************************)
\* The files of .frz/content that Phase A did not record as indexed.
NotRecorded(r1) == DOMAIN r1.fs.content \ r1.indexed_content_files

\* The index entry for the actual ID of the file Phase B found at name.
ActualEntry(r1, name) ==
    SymlinkPath(HsToBase32(SizeHasherFinish(r1.fs.content[name].bytes)))

\* Phase B gave the file a new index entry under its actual ID.
GotIndexEntry(r1, r2, name) ==
    /\ ActualEntry(r1, name) \notin DOMAIN r1.fs.index
    /\ ActualEntry(r1, name) \in DOMAIN r2.fs.index
    /\ r2.fs.index[ActualEntry(r1, name)] = [dir |-> "content", name |-> name]
    /\ name \in DOMAIN r2.fs.content

\* Phase B found the ID indexed for another file and moved this one to
\* .frz/unused-content.
MovedToUnused(r1, r2, name) ==
    /\ ActualEntry(r1, name) \in DOMAIN r2.fs.index
    /\ r2.fs.index[ActualEntry(r1, name)] # [dir |-> "content", name |-> name]
    /\ name \notin DOMAIN r2.fs.content
    /\ r2.fs.unusedDir
    /\ \E m \in DOMAIN r2.fs.unused \ DOMAIN r1.fs.unused :
          r2.fs.unused[m].bytes = r1.fs.content[name].bytes

PhaseBContract(r1, r2) ==
    /\ \A name \in NotRecorded(r1) :
          GotIndexEntry(r1, r2, name) # MovedToUnused(r1, r2, name)
    /\ r2.num_missing_index_symlinks =
           Cardinality({name \in NotRecorded(r1) :
                          GotIndexEntry(r1, r2, name)})
    /\ r2.num_duplicate_content_files =
           Cardinality({name \in NotRecorded(r1) :
                          MovedToUnused(r1, r2, name)})
    /\ Cardinality(DOMAIN r2.fs.unused) =
           Cardinality(DOMAIN r1.fs.unused) + r2.num_duplicate_content_files
    /\ Cardinality(DOMAIN r2.fs.index) =
           Cardinality(DOMAIN r1.fs.index) + r2.num_missing_index_symlinks
    /\ \A name \in DOMAIN r2.fs.content :
          \E symlink \in DOMAIN r2.fs.index :
             r2.fs.index[symlink] = [dir |-> "content", name |-> name]

\* C28: Phase B gives every regular file of .frz/content that Phase A did
\* not record either a new index entry under its actual ID, counted once in
\* num_missing_index_symlinks, or, when the ID is indexed already, a place
\* in .frz/unused-content, counted once in num_duplicate_content_files,
\* never both and never neither; afterwards every file of .frz/content is
\* the target of an index entry.
C28_PhaseBIndexesOrMovesEveryFile ==
    \A verify_all_hashes, rev \in BOOLEAN, pick \in 1..NameFanout :
       \E r1 \in {CheckIndexSymlinks(FS, verify_all_hashes)} :
          \E r2 \in {CheckContentFiles(r1.fs, r1.indexed_content_files,
                                       rev, pick)} :
             PhaseBContract(r1, r2)

\* A repair has just run on a store where one file lacked its index entry
\* or had the ID of an indexed file: Phase B indexed it or moved it.
C28_Witness ==
    /\ last.cmd = "repair"
    /\ last.reported
    /\ last.num_duplicate_content_files >= 1
    /\ unusedDir
    /\ Cardinality(DOMAIN unused) >= 1
    /\ Cardinality(DOMAIN content) >= 1
    /\ \A name \in DOMAIN content :
          \E symlink \in DOMAIN index :
             index[symlink] = [dir |-> "content", name |-> name]

(***************************************************************************)
(* One DirectoryContentSource over its lifetime.  last.dir is its          *)
(* directory: regular files, readable or not, and symlinks to regular      *)
(* files; content is the store it fetches into.  The locator state lc is   *)
(* [dir, content, src, listed, skipped, hashed, logged]: listed is the     *)
(* size ListFiles saw for each path, skipped the symlinks it passed over,  *)
(* hashed how often each path went through a hasher, logged the paths of   *)
(* "When reading" messages, forks the ForkedStream calls made, each as     *)
(* [path, p_hs, hs, kept].                                                 *)
(***************************************************************************)
LocNames == << "f1", "f2", "f3" >>

\* The most Fetch calls one locator gets.
MaxFetches == 3

LocEntries ==
    {[kind |-> "file", bytes |-> b, readable |-> TRUE] :
        b \in {<< >>, B1, B2}}
      \cup {[kind |-> "file", bytes |-> B1, readable |-> FALSE],
            [kind |-> "symlink", bytes |-> B1, readable |-> TRUE]}

\* A variant of ListFiles that takes a symlink to a regular file for one.
LocatorListFilesFollowingSymlinks(lc, rev) ==
    IF lc.src.files_listed THEN lc
    ELSE LET names == Listing(SelectSeq(LocNames,
                                        LAMBDA n : n \in DOMAIN lc.dir), rev)
             sizes == {Len(lc.dir[n].bytes) : n \in DOMAIN lc.dir}
         IN  [lc EXCEPT
                !.src.files_listed = TRUE,
                !.src.files_by_size =
                    [z \in sizes |->
                       SelectSeq(names,
                                 LAMBDA n : Len(lc.dir[n].bytes) = z)],
                !.listed = [n \in DOMAIN lc.dir |-> Len(lc.dir[n].bytes)],
                !.skipped = {n \in DOMAIN lc.dir :
                               lc.dir[n].kind = "symlink"}]

\* ListFiles: on first use, size -> paths of the regular files, symlinks
\* passed over, in the directory's iteration order.
LocatorListFiles(lc, rev) ==
    IF lc.src.files_listed THEN lc
    ELSE LET regular == {n \in DOMAIN lc.dir : lc.dir[n].kind = "file"}
             names == Listing(SelectSeq(LocNames,
                                        LAMBDA n : n \in regular), rev)
             sizes == {Len(lc.dir[n].bytes) : n \in regular}
         IN  [lc EXCEPT
                !.src.files_listed = TRUE,
                !.src.files_by_size =
                    [z \in sizes |->
                       SelectSeq(names,
                                 LAMBDA n : Len(lc.dir[n].bytes) = z)],
                !.listed = [n \in regular |-> Len(lc.dir[n].bytes)],
                !.skipped = DOMAIN lc.dir \ regular]

\* FindFile: [lc, found], found = Nothing or
\* Just([path, already_inserted]).  CreateFileSource throws an Error for a
\* path that is gone or unreadable; the loop logs it and goes on.
RECURSIVE LocatorFindFile(_, _, _, _)
LocatorFindFile(lc, hs, stream, pick) ==
    IF hs \in DOMAIN lc.src.files_by_hash
    THEN [lc |-> lc,
          found |-> Just([path |-> lc.src.files_by_hash[hs],
                          already_inserted |-> FALSE])]
    ELSE IF hs.size \notin DOMAIN lc.src.files_by_size
    THEN [lc |-> lc, found |-> Nothing]
    ELSE
      LET cands == lc.src.files_by_size[hs.size]
          p == cands[Len(cands)]
          rest == SubSeq(cands, 1, Len(cands) - 1)
          popped == [lc EXCEPT !.src.files_by_size =
                        IF rest = << >> THEN Drop(@, hs.size)
                        ELSE Put(@, hs.size, rest)]
      IN  IF p \notin DOMAIN lc.dir \/ ~lc.dir[p].readable
          THEN Let([popped EXCEPT !.logged = @ \cup {p}],
                   LAMBDA x : LocatorFindFile(x, hs, stream, pick))
          ELSE
            LET bytes == lc.dir[p].bytes
                p_hs == SizeHasherFinish(bytes)
                si == StreamInsert(lc.content, bytes, p_hs = hs, pick)
                lc2 == [popped EXCEPT
                          !.hashed = Put(@, p, IF p \in DOMAIN @
                                               THEN @[p] + 1 ELSE 1),
                          !.forks = IF stream
                                    THEN @ \cup {[path |-> p, p_hs |-> p_hs,
                                                  hs |-> hs,
                                                  kept |-> HasValue(si.path)]}
                                    ELSE @,
                          !.content = IF stream THEN si.store ELSE @,
                          !.src.files_by_hash =
                              IF p_hs \in DOMAIN @ THEN @
                              ELSE Put(@, p_hs, p)]
            IN  IF p_hs = hs
                THEN [lc |-> lc2,
                      found |->
                        Just([path |-> IF stream THEN Value(si.path)
                                       ELSE lc2.src.files_by_hash[p_hs],
                              already_inserted |-> stream])]
                ELSE Let(lc2,
                         LAMBDA x : LocatorFindFile(x, hs, stream, pick))

\* A variant of Fetch that stream-inserts while hashing when it may move.
LocatorFetchStreamsOnMove(lc, hs, rev, pick) ==
    LET r == LocatorFindFile(LocatorListFiles(lc, rev), hs,
                             ~lc.src.read_only, pick)
    IN  IF ~HasValue(r.found)
        THEN [lc |-> r.lc, path |-> Nothing, insert_failed |-> FALSE]
        ELSE IF Value(r.found).already_inserted
        THEN [lc |-> r.lc, path |-> Just(Value(r.found).path),
              insert_failed |-> FALSE]
        ELSE [lc |-> r.lc, path |-> Nothing, insert_failed |-> TRUE]

\* Fetch: [lc, path, insert_failed].  Inserting a path that is gone fails
\* with an Error, which Fetch catches: it logs it and returns nullopt.
LocatorFetch(lc, hs, rev, pick) ==
    \* ListFiles, then FindFile
    LET r == LocatorFindFile(LocatorListFiles(lc, rev), hs,
                             lc.src.read_only, pick)
        p == Value(r.found).path
        blob == [bytes |-> r.lc.dir[p].bytes, writable |-> TRUE]
        ci == CopyInsert(r.lc.content, blob, pick)
        mi == MoveInsert(r.lc.content, blob, FALSE, pick)
    IN  IF ~HasValue(r.found)
        THEN [lc |-> r.lc, path |-> Nothing, insert_failed |-> FALSE]
        ELSE IF Value(r.found).already_inserted
        THEN [lc |-> r.lc, path |-> Just(p), insert_failed |-> FALSE]
        ELSE IF p \notin DOMAIN r.lc.dir
        THEN [lc |-> r.lc, path |-> Nothing, insert_failed |-> TRUE]
        ELSE IF lc.src.read_only
        THEN [lc |-> [r.lc EXCEPT !.content = ci.store],
              path |-> Just(ci.path), insert_failed |-> FALSE]
        ELSE [lc |-> [r.lc EXCEPT !.content = mi.store,
                                  !.dir = Drop(@, p)],
              path |-> Just(mi.path), insert_failed |-> FALSE]

NoFetch ==
    [hs |-> Nothing, path |-> Nothing, insert_failed |-> FALSE]

LocatorInit ==
    /\ tree = [s \in Paths |-> NoEntry]
    /\ frz = [d \in SubDirs |-> NoEntry]
    /\ content = EmptyFcn
    /\ unused = EmptyFcn
    /\ unusedDir = FALSE
    /\ index = EmptyFcn
    /\ loc = [l \in Locators |-> EmptyFcn]
    /\ env = 0
    /\ \E names \in SUBSET {LocNames[i] : i \in 1..Len(LocNames)},
          read_only \in BOOLEAN :
          \E dir \in [names -> LocEntries] :
             last = [cmd |-> "locator", dir |-> dir,
                     src |-> [read_only |-> read_only,
                              files_listed |-> FALSE,
                              files_by_size |-> EmptyFcn,
                              files_by_hash |-> EmptyFcn],
                     listed |-> EmptyFcn, skipped |-> {},
                     hashed |-> EmptyFcn, logged |-> {}, forks |-> {},
                     requested |-> {}, fetched |-> {}, fetches |-> 0,
                     out |-> NoFetch]

\* The fill asks the locator for an ID it has not got yet.
LocatorFetchStep(hs, rev, pick) ==
    /\ last.fetches < MaxFetches
    /\ hs \notin last.fetched
    /\ \E r \in {LocatorFetch([dir |-> last.dir, content |-> content,
                               src |-> last.src, listed |-> last.listed,
                               skipped |-> last.skipped,
                               hashed |-> last.hashed,
                               logged |-> last.logged,
                               forks |-> last.forks],
                              hs, rev, pick)} :
          /\ content' = r.lc.content
          /\ last' = [cmd |-> "locator", dir |-> r.lc.dir, src |-> r.lc.src,
                      listed |-> r.lc.listed, skipped |-> r.lc.skipped,
                      hashed |-> r.lc.hashed, logged |-> r.lc.logged,
                      forks |-> r.lc.forks,
                      requested |-> last.requested \cup {hs},
                      fetched |-> IF HasValue(r.path)
                                  THEN last.fetched \cup {hs}
                                  ELSE last.fetched,
                      fetches |-> last.fetches + 1,
                      out |-> [hs |-> Just(hs), path |-> r.path,
                               insert_failed |-> r.insert_failed]]
    /\ UNCHANGED << tree, frz, unused, unusedDir, index, loc, env >>

\* Someone removes a file from the locator's directory between two
\* requests.
LocatorEnvRemove(name) ==
    /\ env < MaxEnv
    /\ name \in DOMAIN last.dir
    /\ last' = [last EXCEPT !.dir = Drop(@, name), !.out = NoFetch]
    /\ env' = env + 1
    /\ UNCHANGED << tree, frz, content, unused, unusedDir, index, loc >>

LocatorNext ==
    \/ \E hs \in IndexIds, rev \in BOOLEAN, pick \in 1..NameFanout :
           LocatorFetchStep(hs, rev, pick)
    \/ \E i \in 1..Len(LocNames) : LocatorEnvRemove(LocNames[i])

LocatorSpec == LocatorInit /\ [][LocatorNext]_vars

\* C29: a locator hashes a file only if the size ListFiles saw for it is
\* the size of an ID requested from this locator, hashes no listed file
\* twice, and never takes a symlink of its tree for a candidate.
C29_LocatorHashesOnlySizeMatches ==
    last.cmd = "locator" =>
        /\ \A n \in DOMAIN last.hashed :
              /\ last.hashed[n] <= 1
              /\ n \in DOMAIN last.listed
              /\ \E hs \in last.requested : hs.size = last.listed[n]
        /\ \A n \in last.skipped :
              /\ n \notin DOMAIN last.hashed
              /\ n \notin DOMAIN last.listed
              /\ \A z \in DOMAIN last.src.files_by_size :
                    \A i \in 1..Len(last.src.files_by_size[z]) :
                       last.src.files_by_size[z][i] # n
              /\ \A h \in DOMAIN last.src.files_by_hash :
                    last.src.files_by_hash[h] # n
        /\ last.src.files_listed =>
              \A n \in DOMAIN last.dir :
                 last.dir[n].kind = "symlink" => n \in last.skipped

\* A locator with a symlink in its tree has answered two requests: it has
\* hashed a file of a requested size and left one of another size alone.
C29_Witness ==
    /\ last.cmd = "locator"
    /\ last.fetches >= 2
    /\ last.skipped # {}
    /\ DOMAIN last.hashed # {}
    /\ \E n \in DOMAIN last.listed :
          /\ n \notin DOMAIN last.hashed
          /\ \A hs \in last.requested : hs.size # last.listed[n]

\* The locator's directory holds a regular file that can be read and has
\* the content of this ID.
ReadableIn(dir, hs) ==
    \E n \in DOMAIN dir :
       /\ dir[n].kind = "file"
       /\ dir[n].readable
       /\ SizeHasherFinish(dir[n].bytes) = hs

\* C30: an error while reading or inserting one candidate of a locator
\* only skips that file: the request still gets the content if another
\* file of the directory has it and can be read, and the ID is left as
\* still missing only if none has.
C30_FileErrorSkipsOnlyThatFile ==
    [][(last'.cmd = "locator" /\ last'.fetches = last.fetches + 1) =>
         \E hs \in {Value(last'.out.hs)} :
            /\ ReadableIn(last.dir, hs) =>
                  /\ HasValue(last'.out.path)
                  /\ Value(last'.out.path) \in DOMAIN content'
                  /\ SizeHasherFinish(
                         content'[Value(last'.out.path)].bytes) = hs
            /\ ~ReadableIn(last.dir, hs) => ~HasValue(last'.out.path)
            /\ \A n \in DOMAIN last'.hashed \ DOMAIN last.hashed :
                  n \notin last'.logged
      ]_vars

\* C31: in move mode the locator hashes every candidate through the forked
\* stream, and a streamed blob is kept iff the candidate's digest is the
\* requested ID.
C31_ForkedStreamInMoveMode ==
    last.cmd = "locator" =>
        /\ ~last.src.read_only =>
              \A n \in DOMAIN last.hashed :
                 \E f \in last.forks : f.path = n
        /\ \A f \in last.forks : f.kept <=> f.p_hs = f.hs

\* C31, as the code has it: the locator hashes every candidate through the
\* forked stream when it may only copy from its directory (read_only) and
\* never when it may move; a streamed blob is kept iff the candidate's
\* digest is the requested ID, and then it is the blob Fetch returns.
C31_ForkedStreamInCopyMode ==
    last.cmd = "locator" =>
        /\ last.src.read_only =>
              \A n \in DOMAIN last.hashed :
                 \E f \in last.forks : f.path = n
        /\ ~last.src.read_only => last.forks = {}
        /\ \A f \in last.forks : f.kept <=> f.p_hs = f.hs
        /\ \A f \in last.forks :
              f.kept =>
                 \E m \in DOMAIN content :
                    SizeHasherFinish(content[m].bytes) = f.hs
        /\ Cardinality({f \in last.forks : f.kept}) <=
               Cardinality(DOMAIN content)

\* A copy-from locator has streamed one candidate that matched, and kept
\* it, and one that did not, and dropped it.
C31_Witness ==
    /\ last.cmd = "locator"
    /\ last.src.read_only
    /\ \E f, g \in last.forks : f.kept /\ ~g.kept
    /\ Cardinality(DOMAIN content) = 1

(***************************************************************************)
(* PathBase32 on symlink targets of up to MaxPathElements elements, each   *)
(* one of: .frz, the hash name, two digits, one digit, three digits, and   *)
(* two characters that are no base-32 number.                              *)
(***************************************************************************)
MaxPathElements == 6
PathElements ==
    {FrzName, hash_name, << "0", "a" >>, << "7" >>, << "0", "a", "7" >>,
     << "0", "i" >>}
LinkTargets == UNION {[1..n -> PathElements] : n \in 0..MaxPathElements}

ParseInit ==
    /\ tree = [s \in Paths |-> NoEntry]
    /\ frz = [d \in SubDirs |-> NoEntry]
    /\ content = EmptyFcn
    /\ unused = EmptyFcn
    /\ unusedDir = FALSE
    /\ index = EmptyFcn
    /\ loc = [l \in Locators |-> EmptyFcn]
    /\ env = 0
    /\ \E link_target \in LinkTargets :
          last = [cmd |-> "parse", link_target |-> link_target,
                  applied |-> FALSE, base32 |-> Nothing]

PathBase32Step ==
    /\ last.cmd = "parse"
    /\ ~last.applied
    /\ last' = [last EXCEPT !.applied = TRUE,
                            !.base32 = PathBase32(hash_name,
                                                  last.link_target)]
    /\ UNCHANGED << tree, frz, content, unused, unusedDir, index, loc, env >>

ParseNext == PathBase32Step

ParseSpec == ParseInit /\ [][ParseNext]_vars

\* The path has the form .frz/<hash-name>/DD/DD/REST.
FiveComponentForm(link_target) ==
    /\ Len(link_target) = 5
    /\ link_target[1] = FrzName
    /\ link_target[2] = hash_name
    /\ \A k \in 3..4 : /\ Len(link_target[k]) = 2
                       /\ \A j \in 1..2 :
                             \E d \in 1..Len(kBase32Digits) :
                                link_target[k][j] \in
                                    {kBase32Digits[d], kBase32UpperDigits[d]}
    /\ \A j \in 1..Len(link_target[5]) :
          \E d \in 1..Len(kBase32Digits) :
             link_target[5][j] \in {kBase32Digits[d], kBase32UpperDigits[d]}

\* C32: PathBase32 returns DD+DD+REST for a target of the form
\* .frz/<hash-name>/DD/DD/REST and nothing for every other path, the empty
\* path and the paths of fewer than five components included.
C32_PathBase32OnlyFiveComponents ==
    (last.cmd = "parse" /\ last.applied) =>
        IF FiveComponentForm(last.link_target)
        THEN last.base32 = Just(last.link_target[3] \o last.link_target[4]
                                    \o last.link_target[5])
        ELSE last.base32 = Nothing

(***************************************************************************)
(* The order of events, the callbacks and the buffers of a ForkedStream    *)
(***************************************************************************)
\* The primary sink loop has taken its end-of-stream buffer and ended.
PrimarySinkEnded(st) ==
    /\ st.snk.primary.end
    /\ st.snk.primary.pc = "done"
    /\ st.latch.primary
    /\ SinkWork(st, "primary") = st

\* C33: in a ForkedStream the primary sink takes its end-of-stream buffer
\* and ends, then primary_done is called, once, and only after that, and
\* only after kFinish with the secondary feeding given up, is the source's
\* SetPosition called: the primary sink gets no byte after it.
C33_ForkedStreamEventOrder ==
    last.mode = "ForkedStream" =>
        /\ last.calls.primary_done <= 1
        /\ (last.src.pc = "primary_done" \/ last.calls.primary_done = 1)
              => PrimarySinkEnded(last)
        /\ last.src.pc = "primary_done" => last.calls.primary_done = 0
        /\ last.calls.SetPosition <= 1
        /\ (last.src.pc = "seek" \/ last.calls.SetPosition = 1) =>
              /\ last.calls.primary_done = 1
              /\ last.decision = "kFinish"
              /\ HasValue(last.src.restart)
              /\ PrimarySinkEnded(last)
        /\ last.src.pc = "seek" => last.calls.SetPosition = 0
        /\ Returned(last) => last.calls.primary_done = 1

\* A ForkedStream has returned after it repositioned the source.
C33_Witness ==
    /\ last.mode = "ForkedStream"
    /\ Returned(last)
    /\ last.calls.primary_done = 1
    /\ last.calls.SetPosition = 1
    /\ Len(last.source) >= 2

\* The threads that are inside one of the caller's callbacks: the source
\* thread in primary_done, a sink thread in its progress callback.
InCallback(st) ==
    {t \in {"source"} : st.src.pc = "primary_done"}
        \cup {k \in Sinks : st.snk[k].pc = "progress"}

\* C34: in a ForkedStream at most one thread is inside primary_progress,
\* secondary_progress or primary_done, and it is the thread that holds
\* callback_mutex, in every interleaving of the three threads.
C34_CallbacksNeverOverlap ==
    last.mode = "ForkedStream" =>
        /\ Cardinality(InCallback(last)) <= 1
        /\ InCallback(last) = {t \in {"source", "primary", "secondary"} :
                                   last.callback_mutex = t}

\* The secondary sink is waiting for callback_mutex while the source thread
\* is inside primary_done.
C34_Witness ==
    /\ last.mode = "ForkedStream"
    /\ last.src.pc = "primary_done"
    /\ last.snk.secondary.pc = "lock"
    /\ last.callback_mutex = "source"
    /\ SinkWork(last, "secondary") = last

\* The buffers of queue k that the source thread holds between the two
\* critical sections of Enqueue, and those the sink thread of k holds
\* between the two critical sections of Dequeue.
HeldByProducer(st, k) ==
    LET pc == st.src.pc
    IN  IF k = "primary"
        THEN IF st.src.phase = "primary"
                    /\ pc \in {"fill", "take2", "push2", "push"}
             THEN 1 ELSE 0
        ELSE IF \/ pc \in {"push2", "push_end"}
                \/ st.src.phase = "secondary" /\ pc \in {"fill", "push"}
             THEN 1 ELSE 0
HeldByConsumer(st, k) ==
    IF st.snk[k].pc \in {"read", "lock", "progress", "return"} THEN 1 ELSE 0

\* The buffers queue k has allocated, counted place by place.
BuffersInPlaces(st, k) ==
    st.q[k].unused + Len(st.q[k].filled)
        + HeldByProducer(st, k) + HeldByConsumer(st, k)

\* C35: of each StreamBufferQueue, the buffers allocated so far are the
\* unused ones, the filled ones, the one the producer writes and the one
\* the consumer reads, each counted once, and never more than max_buffers;
\* a blocking Enqueue that finds no unused buffer and no budget waits, a
\* non-blocking one gives up and leaves the queue as it is.
C35_BuffersAreInOnePlace ==
    last.cmd = "stream" =>
        /\ \A k \in Sinks :
              /\ last.q[k].budget >= 0
              /\ last.q[k].unused >= 0
              /\ BuffersInPlaces(last, k)
                     = last.q[k].max_buffers - last.q[k].budget
              /\ BuffersInPlaces(last, k) <= last.q[k].max_buffers
        /\ (/\ last.src.pc \in {"take", "take_end"}
            /\ ~CanTakeBuffer(last.q[IF last.src.pc = "take"
                                     THEN SourceQueue(last) ELSE "secondary"]))
              => SourceWork(last) = last
        /\ (last.src.pc = "take2" /\ ~CanTakeBuffer(last.q.secondary)) =>
              /\ SourceWork(last).q = last.q
              /\ SourceWork(last).src.pc = "push"
              /\ SourceWork(last).src.buf = last.src.buf

\* The secondary pool is full, its buffers filled or being read, when the
\* source thread calls NonblockingEnqueue.
C35_Witness ==
    /\ last.cmd = "stream"
    /\ last.mode = "ForkedStream"
    /\ last.src.pc = "take2"
    /\ last.q.secondary.max_buffers = 2
    /\ last.q.secondary.budget = 0
    /\ last.q.secondary.unused = 0
    /\ Len(last.q.secondary.filled) = 1
    /\ HeldByConsumer(last, "secondary") = 1

\* The three threads of a call are scheduled again and again: a thread that
\* can take a step does take one.
StreamFairSpec ==
    /\ StreamSpec
    /\ WF_vars(SourceStep)
    /\ \A k \in Sinks : WF_vars(SinkStep(k))

\* primary_done has returned kAbandon to a ForkedStream whose secondary
\* queue has buffers to allocate.
AbandonReturned(st) ==
    /\ st.cmd = "stream"
    /\ st.mode = "ForkedStream"
    /\ st.q.secondary.max_buffers >= 1
    /\ st.calls.primary_done = 1
    /\ st.decision = "kAbandon"

\* C36: once primary_done has returned kAbandon, ForkedStream returns, in
\* every fair interleaving of the source thread and the two sink threads.
C36_AbandonedForkedStreamReturns == AbandonReturned(last) ~> Returned(last)

\* The source thread waits for an unused buffer to put the end marker in,
\* and the secondary sink has left its loop with the filled buffers
\* undequeued: no thread can take a step.
AbandonStuck(st) ==
    /\ AbandonReturned(st)
    /\ st.src.pc = "take_end"
    /\ st.snk.secondary.pc = "done"
    /\ st.q.secondary.filled # << >>
    /\ SourceWork(st) = st
    /\ \A k \in Sinks : SinkWork(st, k) = st

\* The secondary sink may stall for ever inside AddBytes: only its progress
\* callback, which holds callback_mutex, is known to return.
SecondaryCallbackReturns ==
    /\ last.snk.secondary.pc = "progress"
    /\ SinkStep("secondary")

StreamStalledSpec ==
    /\ StreamSpec
    /\ WF_vars(SourceStep)
    /\ WF_vars(SinkStep("primary"))
    /\ WF_vars(SecondaryCallbackReturns)

\* With the secondary sink stalled, primary_done is still called.
PrimaryDoneIsInvoked ==
    (last.cmd = "stream" /\ last.mode = "ForkedStream")
        ~> (last.calls.primary_done = 1)

\* Once the secondary feeding is given up, the source thread puts nothing
\* in the secondary queue until primary_done has returned.
SecondaryPoolFullStopsFeeding ==
    [][(/\ last.cmd = "stream"
        /\ HasValue(last.src.restart)
        /\ last.calls.primary_done = 0
        /\ last'.calls.primary_done = 0)
         => /\ Len(last'.q.secondary.filled) <= Len(last.q.secondary.filled)
            /\ last'.q.secondary.budget = last.q.secondary.budget
            /\ last'.src.restart = last.src.restart]_vars

\* C37: while the primary is fed the source thread never waits on the
\* secondary queue (it waits only for a primary buffer, for the primary
\* sink's latch or for callback_mutex), and when primary_done has been
\* called the primary sink has received every byte of the source, however
\* slow the secondary sink is.
C37_StalledSecondaryNeverHoldsBackPrimary ==
    (last.cmd = "stream" /\ last.mode = "ForkedStream") =>
        /\ (last.calls.primary_done = 0 /\ SourceWork(last) = last) =>
              /\ last.src.pc \in {"take", "wait1", "lock"}
              /\ SourceQueue(last) = "primary"
        /\ last.calls.primary_done = 1 => last.out.primary = last.source

(***************************************************************************)
(* worker.cc: one Worker, the threads that call Do, the thread that        *)
(* destroys it and its own thread in WorkLoop.  A closure is named by the  *)
(* caller and the number of the Do call that enqueued it.                  *)
(***************************************************************************)
\* The most closures a Worker is given, and the threads that call Do.
MaxWork == 3
WorkerCallers == {"t1", "t2"}

\* A WorkLoop that takes the closure at the back of work_queue_.
WorkQueueBack(work_queue_) ==
    [work |-> work_queue_[Len(work_queue_)],
     rest |-> SubSeq(work_queue_, 1, Len(work_queue_) - 1)]
\* work_queue_.front() and work_queue_.pop().
WorkQueueFront(work_queue_) ==
    [work |-> work_queue_[1], rest |-> Tail(work_queue_)]

\* Worker::Worker: an empty queue, and thread_ started on WorkLoop.
WorkerInit ==
    /\ tree = [s \in Paths |-> NoEntry]
    /\ frz = [d \in SubDirs |-> NoEntry]
    /\ content = EmptyFcn
    /\ unused = EmptyFcn
    /\ unusedDir = FALSE
    /\ index = EmptyFcn
    /\ loc = [l \in Locators |-> EmptyFcn]
    /\ env = 0
    /\ last = [cmd |-> "worker", work_queue_ |-> << >>, quitting_ |-> FALSE,
               pc |-> "wait", work |-> Nothing, destructor |-> "none",
               enqueued |-> << >>, started |-> << >>, finished |-> << >>,
               finished_at_quit |-> << >>]

\* Worker::Do(work), called by thread t before the destructor has started.
WorkerDo(t) ==
    /\ last.destructor = "none"
    /\ Len(last.enqueued) < MaxWork
    /\ \E work \in {<<t, Len(last.enqueued) + 1>>} :
          last' = [last EXCEPT !.work_queue_ = Append(@, work),
                               !.enqueued = Append(@, work)]
    /\ UNCHANGED StreamRest

\* WorkLoop's critical section: wait for quitting_ or a closure, return on
\* an empty queue, else take a closure.
WorkLoopTake ==
    /\ last.pc = "wait"
    /\ last.quitting_ \/ last.work_queue_ # << >>
    /\ IF last.work_queue_ = << >>
       THEN last' = [last EXCEPT !.pc = "returned"]
       ELSE \E f \in {WorkQueueFront(last.work_queue_)} :
               last' = [last EXCEPT !.work_queue_ = f.rest,
                                    !.work = Just(f.work),
                                    !.started = Append(@, f.work),
                                    !.pc = "work"]
    /\ UNCHANGED StreamRest

\* work() returns.
WorkLoopWork ==
    /\ last.pc = "work"
    /\ last' = [last EXCEPT !.finished = Append(@, Value(last.work)),
                            !.work = Nothing, !.pc = "wait"]
    /\ UNCHANGED StreamRest

\* The body of Worker::~Worker.
WorkerQuit ==
    /\ last.destructor = "none"
    /\ last' = [last EXCEPT !.quitting_ = TRUE, !.destructor = "body",
                            !.finished_at_quit = last.finished]
    /\ UNCHANGED StreamRest

\* The end of Worker::~Worker: thread_, the member declared last, is
\* destroyed first, and a std::jthread joins in its destructor.
WorkerJoin ==
    /\ last.destructor = "body"
    /\ last.pc = "returned"
    /\ last' = [last EXCEPT !.destructor = "done"]
    /\ UNCHANGED StreamRest

WorkerNext ==
    \/ \E t \in WorkerCallers : WorkerDo(t)
    \/ WorkLoopTake
    \/ WorkLoopWork
    \/ WorkerQuit
    \/ WorkerJoin

WorkerSpec == WorkerInit /\ [][WorkerNext]_vars

IsPrefix(s, t) == Len(s) <= Len(t) /\ s = SubSeq(t, 1, Len(s))

\* C38: the closures given to Do are started in the order of the Do calls,
\* each once, the next one only when the one before has returned; and when
\* ~Worker has completed, every closure enqueued has returned.
C38_WorkerRunsClosuresInOrder ==
    last.cmd = "worker" =>
        /\ IsPrefix(last.started, last.enqueued)
        /\ IsPrefix(last.finished, last.started)
        /\ Len(last.started) - Len(last.finished) <= 1
        /\ Len(last.started) - Len(last.finished)
               = (IF last.pc = "work" THEN 1 ELSE 0)
        /\ last.enqueued = last.started \o last.work_queue_
        /\ last.destructor = "done" =>
              /\ last.finished = last.enqueued
              /\ last.pc = "returned"

\* ~Worker has completed; when it started, two closures of different
\* callers had not yet returned.
C38_Witness ==
    /\ last.cmd = "worker"
    /\ last.destructor = "done"
    /\ Len(last.enqueued) = MaxWork
    /\ Len(last.finished_at_quit) + 2 <= Len(last.enqueued)
    /\ \E i, j \in 1..Len(last.enqueued) : last.enqueued[i][1] # last.enqueued[j][1]

(***************************************************************************)
(* FRZ_ASSERT(fetched) in FetchMissingContentDir                           *)
(***************************************************************************)
\* Repositories as a checkout leaves them: the symlinks at a, b and c
\* carry the ID of B1 or of B2, in lower or in upper case, nothing is in
\* the content store or in the index, and both locators have B1.
CheckedOut ==
    {RegularFile(B1), RegularFile(B2)}
        \cup {Symlink(SymlinkTarget(base32)) :
                base32 \in {HsToBase32(SizeHasherFinish(B1)),
                            ToUpper(HsToBase32(SizeHasherFinish(B1))),
                            HsToBase32(SizeHasherFinish(B2)),
                            ToUpper(HsToBase32(SizeHasherFinish(B2)))}}

FetchInit ==
    /\ tree \in {t \in [Paths -> CheckedOut] :
                   /\ t["a"].kind = "symlink"
                   /\ t["b"] # RegularFile(B2)
                   /\ t["c"] = RegularFile(B1)
                   /\ t["n"] = Symlink(SymlinkTarget(HsToBase32(
                                   SizeHasherFinish(B2))))
                   /\ t["x"] = RegularFile(B2)}
    /\ frz = [d \in SubDirs |-> NoEntry]
    /\ content = EmptyFcn
    /\ unused = EmptyFcn
    /\ unusedDir = FALSE
    /\ index = EmptyFcn
    /\ loc = [l \in Locators |->
                IF l = "L1" THEN ("f1" :> B1 @@ "f2" :> B2)
                ELSE ("f1" :> B1)]
    /\ last = NoCommand
    /\ env = 0

FetchNext ==
    \/ \E args \in CommandLines, rev \in BOOLEAN, pick \in 1..NameFanout :
           RoomFor(FS) /\ Fill(args, rev, pick)
    \/ \E fast \in BOOLEAN, args \in CommandLines, rev \in BOOLEAN,
          pick \in 1..NameFanout :
           RoomFor(FS) /\ Repair(fast, args, rev, pick)

FetchSpec == FetchInit /\ [][FetchNext]_vars

\* C39: whatever the filesystem, the command line and the order of the
\* listings, in the last phase of fill and of repair the Insert that
\* follows a Fetch that returned a path returns true: FRZ_ASSERT(fetched)
\* holds, also for symlinks that carry one ID in two letter cases and for
\* an ID that two locators have.
C39_FetchedContentIsInserted ==
    \A args \in CommandLines :
        /\ \A r \in FillOutcomes(args) : ~r.assert_failed
        /\ \A r \in RepairOutcomes(args) : ~r.r3.assert_failed

\* A fill or repair has fetched the content of an ID that two user-facing
\* symlinks carry, one in upper and one in lower case; it was moved out of
\* L1, and L2 has it too.
C39_Witness ==
    /\ last.cmd \in {"fill", "repair"}
    /\ last.reported
    /\ last.num_fetched >= 1
    /\ \E s1, s2 \in UserLinks(FS) :
          /\ tree[s1].target # tree[s2].target
          /\ IdAt(FS, s1) = IdAt(FS, s2)
          /\ IdAt(FS, s1) = SizeHasherFinish(B1)
          /\ Indexed(FS, s1)
    /\ "f1" \notin DOMAIN loc["L1"]
    /\ "f1" \in DOMAIN loc["L2"]

(***************************************************************************)
(* FromBase32: the width of the size                                       *)
(***************************************************************************)
\* The text is made of base-32 digits and fills the digest.
WellFormed(num_bytes, s) ==
    ~HasForeignCharacter(s) /\ ~TooFewDigits(num_bytes, s)
\* The bits the size portion of a text needs.
SizeWidth(num_bytes, s) == Len(StripZeros(SizePortion(num_bytes, s)))

\* C40: FromBase32 has no value for a text whose size portion needs more
\* than 63 bits; for every text, the value left in the accumulator has at
\* most 63 bits (it never outgrows its 64) and no more bits than
\* bits_in_value counts, as the two assertions say; an accepted text has a
\* size of at most 63 bits.
C40_FromBase32SizeFitsIn63Bits ==
    (/\ last.cmd = "codec"
     /\ last.ops = << "FromBase32" >>
     /\ HasValue(last.given_text)) =>
        LET s == last.given_text[1]
            st == FromBase32State(last.num_bytes, s)
            actual_bits_in_value == Len(st.value)
        IN  /\ actual_bits_in_value <= kSizeBits
            /\ actual_bits_in_value <= st.bits
            /\ HasValue(last.id) => Len(last.id[1].size) <= kSizeBits
            /\ HasValue(last.id) =>
                  last.id[1].size = StripZeros(SizePortion(last.num_bytes, s))
            /\ (/\ WellFormed(last.num_bytes, s)
                /\ SizeWidth(last.num_bytes, s) > kSizeBits)
                  => last.id = Nothing

\* A text of digits behind the 7-byte digest whose size needs 64 bits was
\* refused.
C40_Witness ==
    /\ last.cmd = "codec"
    /\ last.ops = << "FromBase32" >>
    /\ last.num_bytes = 7
    /\ HasValue(last.given_text)
    /\ WellFormed(7, last.given_text[1])
    /\ SizeWidth(7, last.given_text[1]) = kSizeBits + 1
    /\ last.id = Nothing

====
